---- MODULE Spec2Model ----
(***************************************************************************)
(* State-machine model of VideoCaptureDeviceFuchsia                        *)
(* (media/capture/video/fuchsia/video_capture_device_fuchsia.cc).          *)
(*                                                                         *)
(* All handlers run on one sequence, so every handler is one atomic        *)
(* action.  A handler is written as an operator from the device state (a   *)
(* record holding the member fields, the requests outstanding on the       *)
(* channels and the calls made to the client) to the state it leaves, so   *)
(* that a handler calling another one is plain composition, in the order   *)
(* of the statements of the source.                                        *)
(*                                                                         *)
(* Spec is the device with its stream, its client and the allocation       *)
(* service.  FrameSpec is the same device over a range of the numbers of a *)
(* frame, and HintSpec over the resolution updates of successive streams.  *)
(* ConvertSpec applies CopyAndConvertFrame() to source buffers, and        *)
(* GeometrySpec follows a frame from its sizes to its conversion.          *)
(* ManagerSpec models ConversionManagerImpl (content/browser/conversions/  *)
(* conversion_manager_impl.cc) and NotifierSpec ManifestChangeNotifier     *)
(* (third_party/blink/renderer/modules/manifest/                           *)
(* manifest_change_notifier.cc).                                           *)
(* AllowlistSpec models WebUIAllowlist (chrome/browser/ui/webui/           *)
(* webui_allowlist.cc) and TileSpec the conversions of                     *)
(* components/query_tiles/internal/proto_conversion.cc.                    *)
(***************************************************************************)
EXTENDS Naturals, Integers, Sequences, FiniteSets, TLC

\* ---------------------------------------------------------------- bounds
MaxCycles == 2      \* AllocateAndStart() calls in one run
MaxRounds == 2      \* negotiation tokens one stream sends
MaxFrames == 3      \* frames one stream sends
MaxHints == 1       \* resolution updates one stream sends
MaxBuffers == 2     \* largest buffer count of a negotiated pool
MaxProbeFrames == 2 \* frames the stream sends in FrameSpec
MaxStartTime == 1   \* latest clock reading at AllocateAndStart() in FrameSpec
MaxTime == 2        \* latest hardware timestamp of a frame in FrameSpec
MaxSpan == 28       \* largest mapping of a source buffer in FrameSpec, in bytes
MaxHalfWidth == 2   \* ConvertSpec: output widths are 2, 4 .. 2 * MaxHalfWidth
MaxHalfHeight == 2  \* ConvertSpec: output heights are 2, 4 .. 2 * MaxHalfHeight
MaxPadding == 1     \* ConvertSpec: source rows and columns beyond the output, in pairs
MaxRegistrations == 2 \* AllowlistSpec: RegisterAutoGrantedPermission() calls in one run
MaxTiles == 3       \* TileSpec: tiles of a group, sub-tiles included
MaxImages == 2      \* TileSpec: images of the tiles of a group
MaxMilliseconds == 2 \* TileSpec: the last update is at most this long after the epoch
MaxStreamHints == 2 \* HintSpec: resolution updates one stream sends
MaxCodedSize == 3   \* GeometrySpec: largest coded width and height negotiated
MaxHintSize == 4    \* GeometrySpec: largest width and height the stream reports
MaxSlack == 1       \* GeometrySpec: bytes of the source mapping beyond the size required
MaxShort == 1       \* GeometrySpec: bytes the output mapping is short of the frame
MaxManagerCalls == 3 \* ManagerSpec: calls of the owner and of the timer in one run
MaxChanges == 4     \* NotifierSpec: DidChangeManifest() calls in one run

\* ------------------------------------------------------------ value sets
PixelFormats == {"I420", "YV12", "NV12", "BGRA32"}

NoSize == <<0, 0>>

\* fuchsia::sysmem::ImageFormatConstraints of a negotiated pool (the fields
\* per-frame processing reads).
ImageFormatConstraints ==
    [min_coded_width |-> 3, required_max_coded_width |-> 4, coded_width_divisor |-> 4,
     min_coded_height |-> 2, required_max_coded_height |-> 1, coded_height_divisor |-> 2,
     min_bytes_per_row |-> 5, bytes_per_row_divisor |-> 2]

NoConstraints ==
    [min_coded_width |-> 0, required_max_coded_width |-> 0, coded_width_divisor |-> 1,
     min_coded_height |-> 0, required_max_coded_height |-> 0, coded_height_divisor |-> 1,
     min_bytes_per_row |-> 0, bytes_per_row_divisor |-> 1]

\* timestamp: the hardware timestamp of the frame, in ticks of the clock.
NoFrame == [id |-> 0, buffer_index |-> 0, pool |-> 0, timestamp |-> 0]

NoReader ==
    [round |-> 0, num_buffers |-> 0, has_image_format_constraints |-> FALSE,
     pixel_format |-> "NONE", image_format_constraints |-> NoConstraints]

\* What the variables of the other specifications hold in this one.
NoConversion == [phase |-> "none"]

NoAllowlists == [phase |-> "none"]

NoTiles == [phase |-> "none"]

NoManager == [phase |-> "none"]

NoNotifier == [phase |-> "none"]

VARIABLES
    device_,                     \* device_ is bound
    stream_,                     \* stream_ is bound
    client_,                     \* 0: no client, else the id of the attached client
    started_,
    buffer_collection_creator_,  \* 0: null, else the token round it was made from
    buffer_collection_,          \* 0: null, else the round of the pool
    buffer_reader_,              \* NoReader or the reader of a pool
    frame_size_,                 \* NoSize: nullopt, else the last resolution hint
    frames_received_,
    start_time_,                 \* the clock at the last AllocateAndStart() that found the device
    resolution_watches,          \* WatchResolution replies outstanding on stream_
    collection_watches,          \* WatchBufferCollection replies outstanding on stream_
    frame_requests,              \* GetNextFrame replies outstanding on stream_
    create_pending,              \* Create() completions the pool creator holds
    reader_pending,              \* CreateReader() completions the pool holds
    faults,                      \* calls made on an unbound stream_ or a null client_
    calls,                       \* the calls made to the attached client, in order
    frames,                      \* the frames received for the attached client, in order
    cycle,                       \* AllocateAndStart() calls so far
    sent_tokens,                 \* tokens the current stream has sent
    sent_frames,                 \* frames the current stream has sent
    sent_hints,                  \* resolution updates the current stream has sent
    in_flight,                   \* NoFrame or the frame the stream has captured and not yet sent
    allocated_pools,             \* rounds whose pool sysmem has allocated
    owner_running,               \* the owner's last call was AllocateAndStart()
    conversion,                  \* ConvertSpec: the conversion of one source buffer
    allowlists,                  \* AllowlistSpec: the WebUIAllowlist of every profile
    tiles,                       \* TileSpec: a tile group, its proto and the group read back
    manager,                     \* ManagerSpec: a ConversionManagerImpl and its storage sequence
    notifier                     \* NotifierSpec: a ManifestChangeNotifier and its task runner

vars == <<device_, stream_, client_, started_, buffer_collection_creator_,
          buffer_collection_, buffer_reader_, frame_size_, frames_received_,
          start_time_, resolution_watches, collection_watches, frame_requests, create_pending,
          reader_pending, faults, calls, frames, cycle, sent_tokens, sent_frames,
          sent_hints, in_flight, allocated_pools, owner_running,
          conversion, allowlists, tiles, manager, notifier>>

\* The variables of the device.
device_vars ==
    <<device_, stream_, client_, started_, buffer_collection_creator_,
      buffer_collection_, buffer_reader_, frame_size_, frames_received_,
      start_time_, resolution_watches, collection_watches, frame_requests,
      create_pending, reader_pending, faults, calls, frames, cycle, sent_tokens,
      sent_frames, sent_hints, in_flight, allocated_pools, owner_running>>

State ==
    [device_ |-> device_, stream_ |-> stream_, client_ |-> client_,
     started_ |-> started_,
     buffer_collection_creator_ |-> buffer_collection_creator_,
     buffer_collection_ |-> buffer_collection_, buffer_reader_ |-> buffer_reader_,
     frame_size_ |-> frame_size_, frames_received_ |-> frames_received_,
     start_time_ |-> start_time_,
     resolution_watches |-> resolution_watches,
     collection_watches |-> collection_watches, frame_requests |-> frame_requests,
     create_pending |-> create_pending, reader_pending |-> reader_pending,
     faults |-> faults, calls |-> calls, frames |-> frames, cycle |-> cycle,
     sent_tokens |-> sent_tokens, sent_frames |-> sent_frames,
     sent_hints |-> sent_hints, in_flight |-> in_flight,
     allocated_pools |-> allocated_pools, owner_running |-> owner_running]

\* The size the stream of the cycle reports with its k-th resolution update: a
\* watch is answered only with a size that differs from the one before.
HintSize(c, k) == <<2 * c + 1, 2 * k + 1>>

\* The sizes the next resolution update may report.
Hints == {HintSize(cycle, sent_hints + 1)}

\* The process has not been ended by a call through a null pointer.
Running == faults \cap {"null_collection", "null_reader"} = {}

\* A handler runs, in a process that is running, and leaves the state s.
Apply(s) ==
    /\ Running
    /\ device_' = s.device_
    /\ stream_' = s.stream_
    /\ client_' = s.client_
    /\ started_' = s.started_
    /\ buffer_collection_creator_' = s.buffer_collection_creator_
    /\ buffer_collection_' = s.buffer_collection_
    /\ buffer_reader_' = s.buffer_reader_
    /\ frame_size_' = s.frame_size_
    /\ frames_received_' = s.frames_received_
    /\ start_time_' = s.start_time_
    /\ resolution_watches' = s.resolution_watches
    /\ collection_watches' = s.collection_watches
    /\ frame_requests' = s.frame_requests
    /\ create_pending' = s.create_pending
    /\ reader_pending' = s.reader_pending
    /\ faults' = s.faults
    /\ calls' = s.calls
    /\ frames' = s.frames
    /\ cycle' = s.cycle
    /\ sent_tokens' = s.sent_tokens
    /\ sent_frames' = s.sent_frames
    /\ sent_hints' = s.sent_hints
    /\ in_flight' = s.in_flight
    /\ allocated_pools' = s.allocated_pools
    /\ owner_running' = s.owner_running
    /\ UNCHANGED <<conversion, allowlists, tiles, manager, notifier>>

\* ------------------------------------------------------- pure functions
Max(a, b) == IF a >= b THEN a ELSE b

RoundUp(value, alignment) == ((value + alignment - 1) \div alignment) * alignment

SrcCodedWidth(c) ==
    RoundUp(Max(c.min_coded_width, c.required_max_coded_width), c.coded_width_divisor)

SrcCodedHeight(c) ==
    RoundUp(Max(c.min_coded_height, c.required_max_coded_height), c.coded_height_divisor)

SrcStride(c) ==
    RoundUp(Max(c.min_bytes_per_row, SrcCodedWidth(c)), c.bytes_per_row_divisor)

SrcBufferSize(c) == (SrcCodedHeight(c) * SrcStride(c) * 3) \div 2

GetConvertedPixelFormat(format) ==
    IF format \in {"I420", "YV12", "NV12"} THEN "I420" ELSE "UNKNOWN"

IsSupportedPixelFormat(format) == GetConvertedPixelFormat(format) # "UNKNOWN"

\* ------------------------------------------------- calls out of the device
\* A call on client_.  A call on a null client_ is recorded as a fault.
ClientCall(s, call, frame, error) ==
    IF s.client_ = 0
    THEN [s EXCEPT !.faults = @ \cup {"null_client"}]
    ELSE [s EXCEPT !.calls = Append(@, [call |-> call, frame |-> frame, error |-> error])]

\* A request with a reply handler on stream_.  On an unbound stream_ the write
\* fails and the handler is dropped.
StreamRequest(s, kind) ==
    IF s.stream_
    THEN [s EXCEPT ![kind] = @ + 1]
    ELSE [s EXCEPT !.faults = @ \cup {"unbound_stream"}]

\* stream_.Unbind(): the channel is closed, its reply handlers are destroyed and
\* what the stream had for it is lost.
Unbind(s) ==
    [s EXCEPT !.stream_ = FALSE, !.resolution_watches = 0,
              !.collection_watches = 0, !.frame_requests = 0, !.in_flight = NoFrame]

\* ---------------------------------------------------------------- handlers
\* buffer_collection_creator_.reset(): the creator is destroyed together with
\* the Create() completion it holds.
ResetCreator(s) == [s EXCEPT !.buffer_collection_creator_ = 0, !.create_pending = 0]

\* buffer_collection_.reset(): the pool is destroyed together with the
\* CreateReader() completion it holds.
ResetCollection(s) == [s EXCEPT !.buffer_collection_ = 0, !.reader_pending = 0]

\* DisconnectStream() without buffer_reader_.reset().
DisconnectStream_KeepsReader(s) ==
    [ResetCollection(ResetCreator(Unbind(s))) EXCEPT !.frame_size_ = NoSize]

\* DisconnectStream() without frame_size_.reset().
DisconnectStream_KeepsFrameSize(s) ==
    [ResetCollection(ResetCreator(Unbind(s))) EXCEPT !.buffer_reader_ = NoReader]

\* DisconnectStream() without stream_.Unbind().
DisconnectStream_NoUnbind(s) ==
    [ResetCollection(ResetCreator(s))
        EXCEPT !.buffer_reader_ = NoReader, !.frame_size_ = NoSize]

DisconnectStream(s) ==
    [ResetCollection(ResetCreator(Unbind(s)))
        EXCEPT !.buffer_reader_ = NoReader, !.frame_size_ = NoSize]

\* OnError() that reports to the client without DisconnectStream().
OnError_NoDisconnect(s, error) ==
    IF s.client_ # 0 THEN ClientCall(s, "OnError", 0, error) ELSE s

OnError(s, error) ==
    LET t == DisconnectStream(s)
    IN  IF t.client_ # 0 THEN ClientCall(t, "OnError", 0, error) ELSE t

OnDeviceError(s) == OnError(s, "DeviceDisconnected")

OnStreamError(s) == OnError(s, "StreamDisconnected")

WatchResolution(s) == StreamRequest(s, "resolution_watches")

OnWatchResolutionResult(s, frame_size) ==
    WatchResolution([s EXCEPT !.frame_size_ = frame_size])

WatchBufferCollection(s) == StreamRequest(s, "collection_watches")

\* InitializeBufferCollection() without buffer_collection_.reset().
InitializeBufferCollection_KeepsCollection(s, token) ==
    [ResetCreator([s EXCEPT !.buffer_reader_ = NoReader])
        EXCEPT !.buffer_collection_creator_ = token, !.create_pending = 1]

InitializeBufferCollection(s, token) ==
    LET a == [ResetCollection(s) EXCEPT !.buffer_reader_ = NoReader]
    IN  [ResetCreator(a) EXCEPT !.buffer_collection_creator_ = token,
                                !.create_pending = 1]

\* The reply handler without the new WatchBufferCollection().
OnBufferCollectionToken_NoRewatch(s, token) == InitializeBufferCollection(s, token)

\* The reply handler of WatchBufferCollection().
OnBufferCollectionToken(s, token) ==
    WatchBufferCollection(InitializeBufferCollection(s, token))

\* collection = 0: the completion runs with a null pool, and the call of
\* CreateReader() through it ends the process.
OnBufferCollectionCreated(s, collection) ==
    IF collection = 0
    THEN [s EXCEPT !.buffer_collection_ = 0, !.faults = @ \cup {"null_collection"}]
    ELSE [s EXCEPT !.buffer_collection_ = collection, !.reader_pending = @ + 1]

ReceiveNextFrame(s) == StreamRequest(s, "frame_requests")

\* OnBufferReaderCreated() that starts a pull with every valid reader.
OnBufferReaderCreated_PullsEveryRound(s, reader) ==
    LET a == [s EXCEPT !.buffer_reader_ = reader]
    IN  IF reader = NoReader
        THEN [a EXCEPT !.faults = @ \cup {"null_reader"}]
        ELSE IF ~reader.has_image_format_constraints
        THEN OnError(a, "MissingImageFormat")
        ELSE IF ~IsSupportedPixelFormat(reader.pixel_format)
        THEN OnError(a, "UnsupportedPixelFormat")
        ELSE IF ~a.started_
        THEN ReceiveNextFrame(
                 ClientCall([a EXCEPT !.started_ = TRUE], "OnStarted", 0, "none"))
        ELSE ReceiveNextFrame(a)

\* OnBufferReaderCreated() that starts the pull without OnStarted().
OnBufferReaderCreated_NoOnStarted(s, reader) ==
    LET a == [s EXCEPT !.buffer_reader_ = reader]
    IN  IF reader = NoReader
        THEN [a EXCEPT !.faults = @ \cup {"null_reader"}]
        ELSE IF ~reader.has_image_format_constraints
        THEN OnError(a, "MissingImageFormat")
        ELSE IF ~IsSupportedPixelFormat(reader.pixel_format)
        THEN OnError(a, "UnsupportedPixelFormat")
        ELSE IF ~a.started_
        THEN ReceiveNextFrame([a EXCEPT !.started_ = TRUE])
        ELSE a

\* OnBufferReaderCreated() that goes on to OnStarted after an OnError().
OnBufferReaderCreated_NoReturnOnError(s, reader) ==
    LET a == [s EXCEPT !.buffer_reader_ = reader]
        b == IF ~reader.has_image_format_constraints
             THEN OnError(a, "MissingImageFormat")
             ELSE IF ~IsSupportedPixelFormat(reader.pixel_format)
             THEN OnError(a, "UnsupportedPixelFormat")
             ELSE a
    IN  IF ~b.started_
        THEN ReceiveNextFrame(
                 ClientCall([b EXCEPT !.started_ = TRUE], "OnStarted", 0, "none"))
        ELSE b

\* OnBufferReaderCreated() without the check of the pixel format.
OnBufferReaderCreated_AcceptsAnyFormat(s, reader) ==
    LET a == [s EXCEPT !.buffer_reader_ = reader]
    IN  IF reader = NoReader
        THEN [a EXCEPT !.faults = @ \cup {"null_reader"}]
        ELSE IF ~reader.has_image_format_constraints
        THEN OnError(a, "MissingImageFormat")
        ELSE IF ~a.started_
        THEN ReceiveNextFrame(
                 ClientCall([a EXCEPT !.started_ = TRUE], "OnStarted", 0, "none"))
        ELSE a

\* reader = NoReader: the completion runs with a null reader, and the read of
\* buffer_settings() through it ends the process.
OnBufferReaderCreated(s, reader) ==
    LET a == [s EXCEPT !.buffer_reader_ = reader]
    IN  IF reader = NoReader
        THEN [a EXCEPT !.faults = @ \cup {"null_reader"}]
        ELSE IF ~reader.has_image_format_constraints
        THEN OnError(a, "MissingImageFormat")
        ELSE IF ~IsSupportedPixelFormat(reader.pixel_format)
        THEN OnError(a, "UnsupportedPixelFormat")
        ELSE IF ~a.started_
        THEN ReceiveNextFrame(
                 ClientCall([a EXCEPT !.started_ = TRUE], "OnStarted", 0, "none"))
        ELSE a

\* visible_size of ProcessNewFrame(): frame_size_, or the coded size of the
\* buffers when frame_size_ holds nothing.
VisibleSize(s) ==
    IF s.frame_size_ # NoSize
    THEN s.frame_size_
    ELSE <<SrcCodedWidth(s.buffer_reader_.image_format_constraints),
           SrcCodedHeight(s.buffer_reader_.image_format_constraints)>>

\* timestamp of ProcessNewFrame() without the lower limit of 0.
Timestamp_NoLowerLimit(s, frame_info) == frame_info.timestamp - s.start_time_

\* timestamp of ProcessNewFrame(): max(reference_time - start_time_, 0).
Timestamp(s, frame_info) == Max(frame_info.timestamp - s.start_time_, 0)

\* frame_rate of ProcessNewFrame(), frames per tick, as the fraction
\* <<numerator, denominator>>.
FrameRate(s, frame_info) ==
    IF Timestamp(s, frame_info) > 0
    THEN <<s.frames_received_, Timestamp(s, frame_info)>>
    ELSE <<0, 1>>

\* The frame is entered in the list of received frames with what became of it
\* and with the timestamp and the frame rate ProcessNewFrame() has for it.
Outcome(s, frame_info, outcome) ==
    [s EXCEPT !.frames = Append(@, [id |-> frame_info.id, pool |-> frame_info.pool,
                                    via |-> s.buffer_reader_.round,
                                    outstanding |-> s.frame_requests,
                                    outcome |-> outcome,
                                    timestamp |-> Timestamp(s, frame_info),
                                    frame_rate |-> FrameRate(s, frame_info)])]

\* ProcessNewFrame() without the return after a failed reservation.
ProcessNewFrame_NoReturnOnReserveFailure(s, frame_info, reserve_ok, span_size) ==
    IF s.buffer_reader_ = NoReader
    THEN Outcome(s, frame_info, "NoReader")
    ELSE IF frame_info.buffer_index >= s.buffer_reader_.num_buffers
    THEN OnError(Outcome(s, frame_info, "InvalidBufferIndex"), "InvalidBufferIndex")
    ELSE LET a == ClientCall(s, "ReserveOutputBuffer", frame_info.id, "none")
             b == IF reserve_ok THEN a ELSE Outcome(a, frame_info, "NoBuffer")
         IN  IF span_size = 0
             THEN OnError(Outcome(b, frame_info, "FailedToMapBuffer"),
                          "FailedToMapBuffer")
             ELSE IF span_size < SrcBufferSize(s.buffer_reader_.image_format_constraints)
             THEN OnError(Outcome(b, frame_info, "BufferTooSmall"), "BufferTooSmall")
             ELSE ClientCall(IF reserve_ok THEN Outcome(b, frame_info, "Delivered") ELSE b,
                             "OnIncomingCapturedBufferExt", frame_info.id, "none")

\* ProcessNewFrame() that lets the index one past the last buffer through.
ProcessNewFrame_IndexOffByOne(s, frame_info, reserve_ok, span_size) ==
    IF s.buffer_reader_ = NoReader
    THEN Outcome(s, frame_info, "NoReader")
    ELSE IF frame_info.buffer_index > s.buffer_reader_.num_buffers
    THEN OnError(Outcome(s, frame_info, "InvalidBufferIndex"), "InvalidBufferIndex")
    ELSE LET a == ClientCall(s, "ReserveOutputBuffer", frame_info.id, "none")
         IN  IF ~reserve_ok
             THEN Outcome(a, frame_info, "NoBuffer")
             ELSE IF span_size = 0
             THEN OnError(Outcome(a, frame_info, "FailedToMapBuffer"),
                          "FailedToMapBuffer")
             ELSE IF span_size < SrcBufferSize(s.buffer_reader_.image_format_constraints)
             THEN OnError(Outcome(a, frame_info, "BufferTooSmall"), "BufferTooSmall")
             ELSE ClientCall(Outcome(a, frame_info, "Delivered"),
                             "OnIncomingCapturedBufferExt", frame_info.id, "none")

\* ProcessNewFrame() that rejects the mapping of exactly the size needed.
ProcessNewFrame_SizeOffByOne(s, frame_info, reserve_ok, span_size) ==
    IF s.buffer_reader_ = NoReader
    THEN Outcome(s, frame_info, "NoReader")
    ELSE IF frame_info.buffer_index >= s.buffer_reader_.num_buffers
    THEN OnError(Outcome(s, frame_info, "InvalidBufferIndex"), "InvalidBufferIndex")
    ELSE LET a == ClientCall(s, "ReserveOutputBuffer", frame_info.id, "none")
         IN  IF ~reserve_ok
             THEN Outcome(a, frame_info, "NoBuffer")
             ELSE IF span_size = 0
             THEN OnError(Outcome(a, frame_info, "FailedToMapBuffer"),
                          "FailedToMapBuffer")
             ELSE IF span_size <= SrcBufferSize(s.buffer_reader_.image_format_constraints)
             THEN OnError(Outcome(a, frame_info, "BufferTooSmall"), "BufferTooSmall")
             ELSE ClientCall(Outcome(a, frame_info, "Delivered"),
                             "OnIncomingCapturedBufferExt", frame_info.id, "none")

\* ProcessNewFrame() that treats a frame without a reader as a fatal error.
ProcessNewFrame_NoReaderFatal(s, frame_info, reserve_ok, span_size) ==
    IF s.buffer_reader_ = NoReader
    THEN OnError(Outcome(s, frame_info, "NoReader"), "NoReader")
    ELSE IF frame_info.buffer_index >= s.buffer_reader_.num_buffers
    THEN OnError(Outcome(s, frame_info, "InvalidBufferIndex"), "InvalidBufferIndex")
    ELSE LET a == ClientCall(s, "ReserveOutputBuffer", frame_info.id, "none")
         IN  IF ~reserve_ok
             THEN Outcome(a, frame_info, "NoBuffer")
             ELSE IF span_size = 0
             THEN OnError(Outcome(a, frame_info, "FailedToMapBuffer"),
                          "FailedToMapBuffer")
             ELSE IF span_size < SrcBufferSize(s.buffer_reader_.image_format_constraints)
             THEN OnError(Outcome(a, frame_info, "BufferTooSmall"), "BufferTooSmall")
             ELSE ClientCall(Outcome(a, frame_info, "Delivered"),
                             "OnIncomingCapturedBufferExt", frame_info.id, "none")

\* ProcessNewFrame() that asks for the mapping before it reserves the output
\* buffer.
ProcessNewFrame_MapsBeforeReserving(s, frame_info, reserve_ok, span_size) ==
    IF s.buffer_reader_ = NoReader
    THEN Outcome(s, frame_info, "NoReader")
    ELSE IF frame_info.buffer_index >= s.buffer_reader_.num_buffers
    THEN OnError(Outcome(s, frame_info, "InvalidBufferIndex"), "InvalidBufferIndex")
    ELSE IF span_size = 0
    THEN OnError(Outcome(s, frame_info, "FailedToMapBuffer"), "FailedToMapBuffer")
    ELSE IF span_size < SrcBufferSize(s.buffer_reader_.image_format_constraints)
    THEN OnError(Outcome(s, frame_info, "BufferTooSmall"), "BufferTooSmall")
    ELSE LET a == ClientCall(s, "ReserveOutputBuffer", frame_info.id, "none")
         IN  IF ~reserve_ok
             THEN Outcome(a, frame_info, "NoBuffer")
             ELSE ClientCall(Outcome(a, frame_info, "Delivered"),
                             "OnIncomingCapturedBufferExt", frame_info.id, "none")

\* ProcessNewFrame() that treats a failed reservation as a fatal error.
ProcessNewFrame_ReserveFailureFatal(s, frame_info, reserve_ok, span_size) ==
    IF s.buffer_reader_ = NoReader
    THEN Outcome(s, frame_info, "NoReader")
    ELSE IF frame_info.buffer_index >= s.buffer_reader_.num_buffers
    THEN OnError(Outcome(s, frame_info, "InvalidBufferIndex"), "InvalidBufferIndex")
    ELSE LET a == ClientCall(s, "ReserveOutputBuffer", frame_info.id, "none")
         IN  IF ~reserve_ok
             THEN OnError(Outcome(a, frame_info, "NoBuffer"), "NoBuffer")
             ELSE IF span_size = 0
             THEN OnError(Outcome(a, frame_info, "FailedToMapBuffer"),
                          "FailedToMapBuffer")
             ELSE IF span_size < SrcBufferSize(s.buffer_reader_.image_format_constraints)
             THEN OnError(Outcome(a, frame_info, "BufferTooSmall"), "BufferTooSmall")
             ELSE ClientCall(Outcome(a, frame_info, "Delivered"),
                             "OnIncomingCapturedBufferExt", frame_info.id, "none")

\* reserve_ok: the result of ReserveOutputBuffer(); span_size: the size of the
\* mapping GetMappingForBuffer() returns.
ProcessNewFrame(s, frame_info, reserve_ok, span_size) ==
    IF s.buffer_reader_ = NoReader
    THEN Outcome(s, frame_info, "NoReader")
    ELSE IF frame_info.buffer_index >= s.buffer_reader_.num_buffers
    THEN OnError(Outcome(s, frame_info, "InvalidBufferIndex"), "InvalidBufferIndex")
    ELSE LET a == ClientCall(s, "ReserveOutputBuffer", frame_info.id, "none")
         IN  IF ~reserve_ok
             THEN Outcome(a, frame_info, "NoBuffer")
             ELSE IF span_size = 0
             THEN OnError(Outcome(a, frame_info, "FailedToMapBuffer"),
                          "FailedToMapBuffer")
             ELSE IF span_size < SrcBufferSize(s.buffer_reader_.image_format_constraints)
             THEN OnError(Outcome(a, frame_info, "BufferTooSmall"), "BufferTooSmall")
             ELSE ClientCall(Outcome(a, frame_info, "Delivered"),
                             "OnIncomingCapturedBufferExt", frame_info.id, "none")

\* The reply handler with its two statements in the other order.
OnNextFrame_RequestFirst(s, frame_info, reserve_ok, span_size) ==
    ProcessNewFrame(ReceiveNextFrame(s), frame_info, reserve_ok, span_size)

\* The reply handler of GetNextFrame().
OnNextFrame(s, frame_info, reserve_ok, span_size) ==
    ReceiveNextFrame(ProcessNewFrame(s, frame_info, reserve_ok, span_size))

\* device_->ConnectToStream(): a new stream, which has sent nothing yet.
ConnectToStream(s) ==
    [s EXCEPT !.stream_ = TRUE, !.sent_tokens = 0, !.sent_frames = 0,
              !.sent_hints = 0, !.allocated_pools = {}]

\* AllocateAndStart() without the return after the OnError() for a device
\* that is gone.
AllocateAndStart_NoReturnOnError(s, client, now) ==
    LET a == [s EXCEPT !.client_ = client, !.calls = <<>>, !.frames = <<>>,
                       !.cycle = @ + 1]
        b == IF ~a.device_ THEN OnError(a, "DeviceDisconnected") ELSE a
    IN  WatchBufferCollection(
            WatchResolution(
                ConnectToStream([b EXCEPT !.start_time_ = now,
                                          !.frames_received_ = 0])))

\* now: base::TimeTicks::Now().
AllocateAndStart(s, client, now) ==
    LET a == [s EXCEPT !.client_ = client, !.calls = <<>>, !.frames = <<>>,
                       !.cycle = @ + 1]
    IN  IF ~a.device_
        THEN OnError(a, "DeviceDisconnected")
        ELSE WatchBufferCollection(
                 WatchResolution(
                     ConnectToStream([a EXCEPT !.start_time_ = now,
                                               !.frames_received_ = 0])))

\* StopAndDeAllocate() without client_.reset().
StopAndDeAllocate_KeepsClient(s) == DisconnectStream(s)

\* StopAndDeAllocate() whose DisconnectStream() leaves the creator and the
\* pool, and with them their pending completions, alive.
StopAndDeAllocate_KeepsPool(s) ==
    [Unbind(s) EXCEPT !.buffer_reader_ = NoReader, !.frame_size_ = NoSize,
                      !.client_ = 0]

\* StopAndDeAllocate() without DisconnectStream().
StopAndDeAllocate_NoDisconnect(s) == [s EXCEPT !.client_ = 0]

StopAndDeAllocate(s) == [DisconnectStream(s) EXCEPT !.client_ = 0]

\* A reply arrives: its handler leaves the channel's (or the owner's) table.
TakeReply(s, kind) == [s EXCEPT ![kind] = @ - 1]

\* ----------------------------------------------------------------- actions
\* The device after its constructor.
DeviceInit ==
    /\ device_ = TRUE
    /\ stream_ = FALSE
    /\ client_ = 0
    /\ started_ = FALSE
    /\ buffer_collection_creator_ = 0
    /\ buffer_collection_ = 0
    /\ buffer_reader_ = NoReader
    /\ frame_size_ = NoSize
    /\ frames_received_ = 0
    /\ start_time_ = 0
    /\ resolution_watches = 0
    /\ collection_watches = 0
    /\ frame_requests = 0
    /\ create_pending = 0
    /\ reader_pending = 0
    /\ faults = {}
    /\ calls = <<>>
    /\ frames = <<>>
    /\ cycle = 0
    /\ sent_tokens = 0
    /\ sent_frames = 0
    /\ sent_hints = 0
    /\ in_flight = NoFrame
    /\ allocated_pools = {}
    /\ owner_running = FALSE

Init ==
    /\ DeviceInit
    /\ conversion = NoConversion
    /\ allowlists = NoAllowlists
    /\ tiles = NoTiles
    /\ manager = NoManager
    /\ notifier = NoNotifier

\* The owner starts capture: the first call, or a call after StopAndDeAllocate().
\* This specification holds the clock at 0.
Start ==
    /\ ~owner_running
    /\ cycle < MaxCycles
    /\ Apply([AllocateAndStart(State, cycle + 1, 0) EXCEPT !.owner_running = TRUE])

Stop == Apply([StopAndDeAllocate(State) EXCEPT !.owner_running = FALSE])

\* The device channel closes: device_ unbinds itself and runs its error handler.
DeviceDisconnected ==
    /\ device_
    /\ Apply(OnDeviceError([State EXCEPT !.device_ = FALSE]))

\* The stream channel closes: stream_ unbinds itself and runs its error handler.
StreamDisconnected ==
    /\ stream_
    /\ Apply(OnStreamError(Unbind(State)))

ResolutionReply ==
    /\ resolution_watches > 0
    /\ sent_hints < MaxHints
    /\ \E size \in Hints :
          Apply(OnWatchResolutionResult(
                    [TakeReply(State, "resolution_watches")
                        EXCEPT !.sent_hints = @ + 1], size))

TokenReply ==
    /\ collection_watches > 0
    /\ sent_tokens < MaxRounds
    /\ Apply(OnBufferCollectionToken(
                 [TakeReply(State, "collection_watches")
                     EXCEPT !.sent_tokens = @ + 1], sent_tokens + 1))

CreateReply ==
    /\ create_pending > 0
    /\ Apply(OnBufferCollectionCreated(
                 [TakeReply(State, "create_pending")
                     EXCEPT !.allocated_pools = @ \cup {buffer_collection_creator_}],
                 buffer_collection_creator_))

\* The allocation service fails while Create() is pending: the pool creator
\* runs the completion with a null pool.
CreateFailed ==
    /\ create_pending > 0
    /\ Apply(OnBufferCollectionCreated(
                 [TakeReply(State, "create_pending")
                     EXCEPT !.faults = @ \cup {"allocation_failed"}], 0))

ReaderReplyWith(n, has, format, constraints) ==
    /\ reader_pending > 0
    /\ Apply(OnBufferReaderCreated(
                 TakeReply(State, "reader_pending"),
                 [round |-> buffer_collection_, num_buffers |-> n,
                  has_image_format_constraints |-> has,
                  pixel_format |-> format,
                  image_format_constraints |-> constraints]))

ReaderReply ==
    \E n \in 1..MaxBuffers, has \in BOOLEAN, format \in PixelFormats :
        ReaderReplyWith(n, has, format, ImageFormatConstraints)

\* The allocation service fails while CreateReader() is pending: the pool runs
\* the completion with a null reader.
ReaderFailed ==
    /\ reader_pending > 0
    /\ Apply(OnBufferReaderCreated(
                 [TakeReply(State, "reader_pending")
                     EXCEPT !.faults = @ \cup {"allocation_failed"}], NoReader))

\* The stream fills a buffer of its current pool (the pool of the last token it
\* sent, once allocated) for the outstanding GetNextFrame().
CaptureWith(index, timestamp) ==
    /\ frame_requests > 0
    /\ in_flight = NoFrame
    /\ sent_tokens \in allocated_pools
    /\ Apply([State EXCEPT !.sent_frames = @ + 1,
                           !.in_flight = [id |-> sent_frames + 1,
                                          buffer_index |-> index,
                                          pool |-> sent_tokens,
                                          timestamp |-> timestamp]])

Capture ==
    /\ sent_frames < MaxFrames
    /\ \E index \in 0..MaxBuffers : CaptureWith(index, 0)

\* The reply to GetNextFrame() arrives with the captured frame.
FrameReplyWith(reserve_ok, span_size) ==
    /\ frame_requests > 0
    /\ in_flight # NoFrame
    /\ Apply(OnNextFrame(
                 [TakeReply(State, "frame_requests") EXCEPT !.in_flight = NoFrame],
                 in_flight, reserve_ok, span_size))

SpanSizes ==
    {0, SrcBufferSize(ImageFormatConstraints) - 1, SrcBufferSize(ImageFormatConstraints)}

FrameReply ==
    \E reserve_ok \in BOOLEAN, span_size \in SpanSizes :
        FrameReplyWith(reserve_ok, span_size)

Next ==
    \/ Start
    \/ Stop
    \/ DeviceDisconnected
    \/ StreamDisconnected
    \/ ResolutionReply
    \/ TokenReply
    \/ CreateReply
    \/ CreateFailed
    \/ ReaderReply
    \/ ReaderFailed
    \/ Capture
    \/ FrameReply

Spec == Init /\ [][Next]_vars

\* ------------------------------------------------- the numbers of a frame
\* FrameSpec: one stream and one negotiation round that ends with a valid
\* reader, over a range of negotiated constraints, clock readings, hardware
\* timestamps and mapping sizes.
ProbeConstraints ==
    [min_coded_width : {1, 3}, required_max_coded_width : {2},
     coded_width_divisor : {1, 4},
     min_coded_height : {1, 3}, required_max_coded_height : {2},
     coded_height_divisor : {1},
     min_bytes_per_row : {2, 5}, bytes_per_row_divisor : {3}]

FrameStart ==
    /\ ~owner_running
    /\ cycle = 0
    /\ \E now \in 0..MaxStartTime :
          Apply([AllocateAndStart(State, 1, now) EXCEPT !.owner_running = TRUE])

FrameToken ==
    /\ collection_watches > 0
    /\ sent_tokens = 0
    /\ Apply(OnBufferCollectionToken(
                 [TakeReply(State, "collection_watches") EXCEPT !.sent_tokens = 1], 1))

FrameReader ==
    \E constraints \in ProbeConstraints, format \in {"I420", "YV12", "NV12"} :
        ReaderReplyWith(MaxBuffers, TRUE, format, constraints)

FrameCapture ==
    /\ sent_frames < MaxProbeFrames
    /\ \E timestamp \in 0..MaxTime : CaptureWith(0, timestamp)

\* The sizes a mapping is tried at: none, one byte, and the sizes next to the
\* size the constraints of the buffers ask for.
ProbeSpans ==
    LET needed == SrcBufferSize(buffer_reader_.image_format_constraints)
    IN  {n \in 0..MaxSpan : n <= 1 \/ (needed - 1 <= n /\ n <= needed + 1)}

FrameArrives ==
    \E reserve_ok \in BOOLEAN, span_size \in ProbeSpans :
        FrameReplyWith(reserve_ok, span_size)

FrameNext ==
    \/ FrameStart
    \/ FrameToken
    \/ CreateReply
    \/ FrameReader
    \/ FrameCapture
    \/ FrameArrives

FrameSpec == Init /\ [][FrameNext]_vars

\* ------------------------------------------------------ resolution updates
\* HintSpec: successive streams, each with one negotiation round that ends
\* with a valid reader, with several resolution updates and with frames that
\* are delivered or fail their mapping.
HintResolution ==
    /\ resolution_watches > 0
    /\ sent_hints < MaxStreamHints
    /\ Apply(OnWatchResolutionResult(
                 [TakeReply(State, "resolution_watches") EXCEPT !.sent_hints = @ + 1],
                 HintSize(cycle, sent_hints + 1)))

HintReader ==
    \E constraints \in ProbeConstraints :
        ReaderReplyWith(MaxBuffers, TRUE, "NV12", constraints)

HintCapture ==
    /\ sent_frames < MaxProbeFrames
    /\ CaptureWith(0, 0)

HintArrives ==
    \E span_size \in {0, SrcBufferSize(buffer_reader_.image_format_constraints)} :
        FrameReplyWith(TRUE, span_size)

HintNext ==
    \/ Start
    \/ Stop
    \/ HintResolution
    \/ FrameToken
    \/ CreateReply
    \/ HintReader
    \/ HintCapture
    \/ HintArrives

HintSpec == Init /\ [][HintNext]_vars

\* ------------------------------------------------------ CopyAndConvertFrame
\* A buffer is the sequence of its bytes; a pointer into it is the number of
\* bytes before the one it points to.
Samples == [y |-> 1, u |-> 2, v |-> 3, padding |-> 0, unwritten |-> 9]

\* width x height samples are copied to dst, row r at dst_off + r * dst_stride,
\* from src, row r at src_off + r * src_stride, every step-th byte of it.
CopyPlane(dst, dst_off, dst_stride, src, src_off, src_stride, step, width, height) ==
    [i \in DOMAIN dst |->
        LET k == i - 1 - dst_off
        IN  IF k >= 0 /\ k \div dst_stride < height /\ k % dst_stride < width
            THEN src[src_off + (k \div dst_stride) * src_stride
                         + (k % dst_stride) * step + 1]
            ELSE dst[i]]

\* libyuv::I420Copy(): the three planes are copied, the chroma planes at half
\* the width and half the height, rounded up.
I420Copy(src, src_y, src_stride_y, src_u, src_stride_u, src_v, src_stride_v, dst, dst_y, dst_stride_y, dst_u, dst_stride_u, dst_v, dst_stride_v, width, height) ==
    LET halfwidth == (width + 1) \div 2
        halfheight == (height + 1) \div 2
        a == CopyPlane(dst, dst_y, dst_stride_y, src, src_y, src_stride_y, 1,
                       width, height)
        b == CopyPlane(a, dst_u, dst_stride_u, src, src_u, src_stride_u, 1,
                       halfwidth, halfheight)
    IN  CopyPlane(b, dst_v, dst_stride_v, src, src_v, src_stride_v, 1,
                  halfwidth, halfheight)

\* libyuv::NV12ToI420(): the Y plane is copied and the UV plane is split, its
\* even bytes to the U plane and its odd bytes to the V plane.
NV12ToI420(src, src_y, src_stride_y, src_uv, src_stride_uv, dst, dst_y, dst_stride_y, dst_u, dst_stride_u, dst_v, dst_stride_v, width, height) ==
    LET halfwidth == (width + 1) \div 2
        halfheight == (height + 1) \div 2
        a == CopyPlane(dst, dst_y, dst_stride_y, src, src_y, src_stride_y, 1,
                       width, height)
        b == CopyPlane(a, dst_u, dst_stride_u, src, src_uv, src_stride_uv, 2,
                       halfwidth, halfheight)
    IN  CopyPlane(b, dst_v, dst_stride_v, src, src_uv + 1, src_stride_uv, 2,
                  halfwidth, halfheight)

\* CopyAndConvertFrame() without the swap of the chroma planes of YV12.
CopyAndConvertFrame_NoSwap(src_span, src_pixel_format, src_stride_y, src_coded_height, output, output_size) ==
    LET src_y == 0
        src_y_plane_size == src_stride_y * src_coded_height
        dst_y == 0
        dst_stride_y == output_size[1]
        dst_y_plane_size == output_size[1] * output_size[2]
        dst_u == dst_y + dst_y_plane_size
        dst_stride_u == output_size[1] \div 2
        dst_v == dst_u + dst_y_plane_size \div 4
        dst_stride_v == output_size[1] \div 2
        dst_end == dst_v + dst_y_plane_size \div 4
        src_u == src_y + src_y_plane_size
        src_stride_u == src_stride_y \div 2
        src_u_plane_size == (src_stride_u * src_coded_height) \div 2
        src_v == src_u + src_u_plane_size
        src_stride_v == src_stride_y \div 2
        src_v_plane_size == (src_stride_v * src_coded_height) \div 2
        src_uv == src_y + src_stride_y * src_coded_height
        src_uv_plane_size == (src_stride_y * src_coded_height) \div 2
    IN  IF dst_end > Len(output)
        THEN [data |-> output, check_failed |-> TRUE]
        ELSE IF src_pixel_format \in {"YV12", "I420"}
        THEN IF src_v + src_v_plane_size > Len(src_span)
             THEN [data |-> output, check_failed |-> TRUE]
             ELSE [data |-> I420Copy(src_span, src_y, src_stride_y, src_u, src_stride_u,
                                     src_v, src_stride_v, output, dst_y, dst_stride_y,
                                     dst_u, dst_stride_u, dst_v, dst_stride_v,
                                     output_size[1], output_size[2]),
                   check_failed |-> FALSE]
        ELSE IF src_uv + src_uv_plane_size > Len(src_span)
             THEN [data |-> output, check_failed |-> TRUE]
             ELSE [data |-> NV12ToI420(src_span, src_y, src_stride_y, src_uv, src_stride_y,
                                       output, dst_y, dst_stride_y, dst_u, dst_stride_u,
                                       dst_v, dst_stride_v,
                                       output_size[1], output_size[2]),
                   check_failed |-> FALSE]

\* CopyAndConvertFrame() without the check of dst_end.
CopyAndConvertFrame_NoDstCheck(src_span, src_pixel_format, src_stride_y, src_coded_height, output, output_size) ==
    LET src_y == 0
        src_y_plane_size == src_stride_y * src_coded_height
        dst_y == 0
        dst_stride_y == output_size[1]
        dst_y_plane_size == output_size[1] * output_size[2]
        dst_u == dst_y + dst_y_plane_size
        dst_stride_u == output_size[1] \div 2
        dst_v == dst_u + dst_y_plane_size \div 4
        dst_stride_v == output_size[1] \div 2
        dst_end == dst_v + dst_y_plane_size \div 4
        first_u == src_y + src_y_plane_size
        src_stride_u == src_stride_y \div 2
        src_u_plane_size == (src_stride_u * src_coded_height) \div 2
        first_v == first_u + src_u_plane_size
        src_stride_v == src_stride_y \div 2
        src_u == IF src_pixel_format = "YV12" THEN first_v ELSE first_u
        src_v == IF src_pixel_format = "YV12" THEN first_u ELSE first_v
        src_v_plane_size == (src_stride_v * src_coded_height) \div 2
        src_uv == src_y + src_stride_y * src_coded_height
        src_uv_plane_size == (src_stride_y * src_coded_height) \div 2
    IN  IF src_pixel_format \in {"YV12", "I420"}
        THEN IF src_v + src_v_plane_size > Len(src_span)
             THEN [data |-> output, check_failed |-> TRUE]
             ELSE [data |-> I420Copy(src_span, src_y, src_stride_y, src_u, src_stride_u,
                                     src_v, src_stride_v, output, dst_y, dst_stride_y,
                                     dst_u, dst_stride_u, dst_v, dst_stride_v,
                                     output_size[1], output_size[2]),
                   check_failed |-> FALSE]
        ELSE IF src_uv + src_uv_plane_size > Len(src_span)
             THEN [data |-> output, check_failed |-> TRUE]
             ELSE [data |-> NV12ToI420(src_span, src_y, src_stride_y, src_uv, src_stride_y,
                                       output, dst_y, dst_stride_y, dst_u, dst_stride_u,
                                       dst_v, dst_stride_v,
                                       output_size[1], output_size[2]),
                   check_failed |-> FALSE]

\* output: the bytes of the output buffer before the call; data: after it;
\* check_failed: one of the CHECK_LE has ended the process.
CopyAndConvertFrame(src_span, src_pixel_format, src_stride_y, src_coded_height, output, output_size) ==
    LET src_y == 0
        src_y_plane_size == src_stride_y * src_coded_height
        dst_y == 0
        dst_stride_y == output_size[1]
        dst_y_plane_size == output_size[1] * output_size[2]
        dst_u == dst_y + dst_y_plane_size
        dst_stride_u == output_size[1] \div 2
        dst_v == dst_u + dst_y_plane_size \div 4
        dst_stride_v == output_size[1] \div 2
        dst_end == dst_v + dst_y_plane_size \div 4
        first_u == src_y + src_y_plane_size
        src_stride_u == src_stride_y \div 2
        src_u_plane_size == (src_stride_u * src_coded_height) \div 2
        first_v == first_u + src_u_plane_size
        src_stride_v == src_stride_y \div 2
        src_u == IF src_pixel_format = "YV12" THEN first_v ELSE first_u
        src_v == IF src_pixel_format = "YV12" THEN first_u ELSE first_v
        src_v_plane_size == (src_stride_v * src_coded_height) \div 2
        src_uv == src_y + src_stride_y * src_coded_height
        src_uv_plane_size == (src_stride_y * src_coded_height) \div 2
    IN  IF dst_end > Len(output)
        THEN [data |-> output, check_failed |-> TRUE]
        ELSE IF src_pixel_format \in {"YV12", "I420"}
        THEN IF src_v + src_v_plane_size > Len(src_span)
             THEN [data |-> output, check_failed |-> TRUE]
             ELSE [data |-> I420Copy(src_span, src_y, src_stride_y, src_u, src_stride_u,
                                     src_v, src_stride_v, output, dst_y, dst_stride_y,
                                     dst_u, dst_stride_u, dst_v, dst_stride_v,
                                     output_size[1], output_size[2]),
                   check_failed |-> FALSE]
        ELSE IF src_uv + src_uv_plane_size > Len(src_span)
             THEN [data |-> output, check_failed |-> TRUE]
             ELSE [data |-> NV12ToI420(src_span, src_y, src_stride_y, src_uv, src_stride_y,
                                       output, dst_y, dst_stride_y, dst_u, dst_stride_u,
                                       dst_v, dst_stride_v,
                                       output_size[1], output_size[2]),
                   check_failed |-> FALSE]

\* A source buffer of the format, stride bytes a row and coded_height rows,
\* whose width x height picture holds the Y, U and V samples: I420 is the Y
\* plane, the U plane and the V plane, YV12 the Y plane, the V plane and the U
\* plane, NV12 the Y plane and the plane of the U, V pairs.
SourceBuffer(format, stride, coded_height, width, height) ==
    LET y_size == stride * coded_height
        c_stride == stride \div 2
        c_size == c_stride * (coded_height \div 2)
        Luma(k) == IF k \div stride < height /\ k % stride < width
                   THEN Samples.y ELSE Samples.padding
        Chroma(k, value) ==
            IF k \div c_stride < height \div 2 /\ k % c_stride < width \div 2
            THEN value ELSE Samples.padding
        Pairs(k) == IF k \div stride < height \div 2 /\ k % stride < width
                    THEN IF k % 2 = 0 THEN Samples.u ELSE Samples.v
                    ELSE Samples.padding
    IN  [i \in 1..(y_size + 2 * c_size) |->
            LET k == i - 1
            IN  IF k < y_size THEN Luma(k)
                ELSE IF format = "NV12" THEN Pairs(k - y_size)
                ELSE IF k < y_size + c_size
                THEN Chroma(k - y_size, IF format = "YV12" THEN Samples.v ELSE Samples.u)
                ELSE Chroma(k - y_size - c_size,
                            IF format = "YV12" THEN Samples.u ELSE Samples.v)]

\* The output buffer reserved for a frame of the size: width * height * 3 / 2
\* bytes, nothing written yet.
OutputBuffer(output_size) ==
    [i \in 1..((output_size[1] * output_size[2] * 3) \div 2) |-> Samples.unwritten]

ConvertInit ==
    /\ DeviceInit
    /\ allowlists = NoAllowlists
    /\ tiles = NoTiles
    /\ manager = NoManager
    /\ notifier = NoNotifier
    /\ \E format \in {"I420", "YV12", "NV12"},
          half_width \in 1..MaxHalfWidth, half_height \in 1..MaxHalfHeight,
          columns \in 0..MaxPadding, rows \in 0..MaxPadding :
          conversion = [phase |-> "reserved", format |-> format,
                        output_size |-> <<2 * half_width, 2 * half_height>>,
                        stride |-> 2 * (half_width + columns),
                        coded_height |-> 2 * (half_height + rows),
                        source |-> <<>>, result |-> <<>>]

\* The camera fills the buffer.
FillSource ==
    /\ conversion.phase = "reserved"
    /\ conversion' = [conversion EXCEPT
                         !.phase = "mapped",
                         !.source = SourceBuffer(conversion.format, conversion.stride,
                                                 conversion.coded_height,
                                                 conversion.output_size[1],
                                                 conversion.output_size[2])]
    /\ UNCHANGED <<device_vars, allowlists, tiles, manager, notifier>>

Convert ==
    /\ conversion.phase = "mapped"
    /\ conversion' = [conversion EXCEPT
                         !.phase = "converted",
                         !.result = CopyAndConvertFrame(
                                        conversion.source, conversion.format,
                                        conversion.stride, conversion.coded_height,
                                        OutputBuffer(conversion.output_size),
                                        conversion.output_size)]
    /\ UNCHANGED <<device_vars, allowlists, tiles, manager, notifier>>

ConvertNext ==
    \/ FillSource
    \/ Convert

ConvertSpec == ConvertInit /\ [][ConvertNext]_vars

\* ------------------------------------------------- the geometry of a frame
\* GeometrySpec follows one frame through the sizes ProcessNewFrame() computes
\* and the buffers it hands to CopyAndConvertFrame(), over the constraints the
\* allocation service may negotiate and the resolutions the stream may report.

\* Constraints whose coded sizes are every size up to MaxCodedSize and whose
\* rows are as long as the coded width or longer.
GeometryConstraints ==
    [min_coded_width : 1..MaxCodedSize, required_max_coded_width : {1},
     coded_width_divisor : {1},
     min_coded_height : 1..MaxCodedSize, required_max_coded_height : {1},
     coded_height_divisor : {1},
     min_bytes_per_row : {1, MaxCodedSize + 1}, bytes_per_row_divisor : {1}]

\* frame_size_: no resolution reported, or any size up to MaxHintSize.
GeometryHints == {NoSize} \cup ((1..MaxHintSize) \X (1..MaxHintSize))

\* output_size of ProcessNewFrame(): (v + 1) & ~1 clears the lowest bit of
\* v + 1.
ClearLowestBit(value) == value - (value % 2)

\* output_size that rounds down instead of up.
OutputSize_RoundsDown(visible_size) ==
    <<ClearLowestBit(visible_size[1]), ClearLowestBit(visible_size[2])>>

OutputSize(visible_size) ==
    <<ClearLowestBit(visible_size[1] + 1), ClearLowestBit(visible_size[2] + 1)>>

\* gfx::Rect(visible_size): the rectangle of the size at the origin.
VisibleRect(visible_size) ==
    [x |-> 0, y |-> 0, width |-> visible_size[1], height |-> visible_size[2]]

\* One past the last byte a plane copy touches: rows of row_bytes bytes,
\* stride bytes apart, from offset.
PlaneEnd(offset, stride, row_bytes, rows) ==
    IF rows = 0 \/ row_bytes = 0 THEN offset
    ELSE offset + (rows - 1) * stride + row_bytes

\* One past the last byte of src_span the conversion reads.
ReadEnd(src_pixel_format, src_stride_y, src_coded_height, output_size) ==
    LET width == output_size[1]
        height == output_size[2]
        halfwidth == (width + 1) \div 2
        halfheight == (height + 1) \div 2
        src_y_end == PlaneEnd(0, src_stride_y, width, height)
        first == src_stride_y * src_coded_height
        src_stride_u == src_stride_y \div 2
        second == first + (src_stride_u * src_coded_height) \div 2
    IN  IF src_pixel_format = "NV12"
        THEN Max(src_y_end, PlaneEnd(first, src_stride_y, 2 * halfwidth, halfheight))
        ELSE Max(src_y_end,
                 Max(PlaneEnd(first, src_stride_u, halfwidth, halfheight),
                     PlaneEnd(second, src_stride_u, halfwidth, halfheight)))

\* One past the last byte of the output buffer the conversion writes.
WriteEnd(output_size) ==
    LET width == output_size[1]
        height == output_size[2]
        halfwidth == (width + 1) \div 2
        halfheight == (height + 1) \div 2
        dst_y_plane_size == width * height
        dst_u == dst_y_plane_size
        dst_v == dst_u + dst_y_plane_size \div 4
    IN  Max(PlaneEnd(0, width, width, height),
            Max(PlaneEnd(dst_u, width \div 2, halfwidth, halfheight),
                PlaneEnd(dst_v, width \div 2, halfwidth, halfheight)))

\* The mapping of the source buffer: size bytes, the luma plane first.
SourceMapping(size, stride, coded_height) ==
    [i \in 1..size |-> IF i <= stride * coded_height THEN Samples.y ELSE Samples.u]

\* The mapping of the output buffer, short bytes smaller than the frame.
OutputMapping(output_size, short) ==
    SubSeq(OutputBuffer(output_size), 1, Len(OutputBuffer(output_size)) - short)

\* A frame arrives: the reader's constraints, frame_size_, and what the two
\* mappings will hold beyond (slack) or below (short) the sizes of the frame.
GeometryInit ==
    /\ DeviceInit
    /\ allowlists = NoAllowlists
    /\ tiles = NoTiles
    /\ manager = NoManager
    /\ notifier = NoNotifier
    /\ \E format \in {"I420", "YV12", "NV12"}, constraints \in GeometryConstraints,
          frame_size \in GeometryHints, slack \in 0..MaxSlack, short \in 0..MaxShort :
          conversion = [phase |-> "frame", format |-> format,
                        constraints |-> constraints, frame_size |-> frame_size,
                        slack |-> slack, short |-> short]

\* ProcessNewFrame(): the sizes of the frame.
MeasureFrame ==
    /\ conversion.phase = "frame"
    /\ LET visible_size ==
               VisibleSize([frame_size_ |-> conversion.frame_size,
                            buffer_reader_ |->
                                [image_format_constraints |-> conversion.constraints]])
       IN  conversion' =
               [phase |-> "measured", format |-> conversion.format,
                slack |-> conversion.slack, short |-> conversion.short,
                src_stride |-> SrcStride(conversion.constraints),
                src_coded_height |-> SrcCodedHeight(conversion.constraints),
                src_buffer_size |-> SrcBufferSize(conversion.constraints),
                visible_size |-> visible_size,
                output_size |-> OutputSize(visible_size)]
    /\ UNCHANGED <<device_vars, allowlists, tiles, manager, notifier>>

\* ProcessNewFrame(): the output buffer is reserved and the source buffer
\* mapped; a source mapping below src_buffer_size would be dropped, so the
\* mapping holds that or more.
MapFrame ==
    /\ conversion.phase = "measured"
    /\ conversion' =
           [phase |-> "mapped", format |-> conversion.format,
            src_stride |-> conversion.src_stride,
            src_coded_height |-> conversion.src_coded_height,
            visible_size |-> conversion.visible_size,
            output_size |-> conversion.output_size,
            src_span |-> SourceMapping(conversion.src_buffer_size + conversion.slack,
                                       conversion.src_stride,
                                       conversion.src_coded_height),
            output |-> OutputMapping(conversion.output_size, conversion.short)]
    /\ UNCHANGED <<device_vars, allowlists, tiles, manager, notifier>>

\* dst_end of CopyAndConvertFrame(): the luma plane and two chroma planes of
\* a quarter of its size.
DstEnd(output_size) ==
    LET dst_y_plane_size == output_size[1] * output_size[2]
        dst_u == dst_y_plane_size
        dst_v == dst_u + dst_y_plane_size \div 4
    IN  dst_v + dst_y_plane_size \div 4

\* The planes of src_span CopyAndConvertFrame() hands to libyuv, each by the
\* name it has at the call, its offset and its size.
SrcPlanes(src_pixel_format, src_stride_y, src_coded_height) ==
    LET src_y_plane_size == src_stride_y * src_coded_height
        first_u == src_y_plane_size
        src_u_plane_size == ((src_stride_y \div 2) * src_coded_height) \div 2
        first_v == first_u + src_u_plane_size
        src_u == IF src_pixel_format = "YV12" THEN first_v ELSE first_u
        src_v == IF src_pixel_format = "YV12" THEN first_u ELSE first_v
    IN  IF src_pixel_format = "NV12"
        THEN {[plane |-> "src_y", offset |-> 0, size |-> src_y_plane_size],
              [plane |-> "src_uv", offset |-> src_y_plane_size,
               size |-> (src_stride_y * src_coded_height) \div 2]}
        ELSE {[plane |-> "src_y", offset |-> 0, size |-> src_y_plane_size],
              [plane |-> "src_u", offset |-> src_u, size |-> src_u_plane_size],
              [plane |-> "src_v", offset |-> src_v, size |-> src_u_plane_size]}

\* src_end of CopyAndConvertFrame(): the end of src_v for I420 and YV12 (for
\* YV12 after the swap of src_u and src_v), the end of src_uv for NV12.
SrcEnd(src_pixel_format, src_stride_y, src_coded_height) ==
    LET last == IF src_pixel_format = "NV12" THEN "src_uv" ELSE "src_v"
        plane == CHOOSE p \in SrcPlanes(src_pixel_format, src_stride_y, src_coded_height) :
                     p.plane = last
    IN  plane.offset + plane.size

\* ProcessNewFrame(): the conversion and the delivery.  A conversion that
\* passes its checks and yet reads or writes outside a mapping is undefined:
\* the process faults, or the frame holds whatever lay beyond the mapping.
\* A conversion whose reads would leave the source mapping and whose checks
\* fail ends at the check, before any read.
ConvertFrame ==
    /\ conversion.phase = "mapped"
    /\ LET reads_inside ==
               ReadEnd(conversion.format, conversion.src_stride,
                       conversion.src_coded_height, conversion.output_size)
                   <= Len(conversion.src_span)
           writes_inside == WriteEnd(conversion.output_size) <= Len(conversion.output)
           passes ==
               /\ DstEnd(conversion.output_size) <= Len(conversion.output)
               /\ SrcEnd(conversion.format, conversion.src_stride,
                         conversion.src_coded_height) <= Len(conversion.src_span)
           Converted(result) ==
               [phase |-> "converted", format |-> conversion.format,
                src_stride |-> conversion.src_stride,
                src_coded_height |-> conversion.src_coded_height,
                src_span |-> conversion.src_span,
                output |-> conversion.output,
                visible_size |-> conversion.visible_size,
                output_size |-> conversion.output_size,
                visible_rect |-> VisibleRect(conversion.visible_size),
                result |-> result]
       IN  IF passes /\ ~(reads_inside /\ writes_inside)
           THEN \E outcome \in {"fault", "garbage"} :
                   conversion' = Converted([data |-> <<>>, check_failed |-> FALSE,
                                            undefined |-> outcome])
           ELSE IF ~reads_inside
           THEN conversion' = Converted([data |-> conversion.output,
                                         check_failed |-> TRUE, undefined |-> "no"])
           ELSE LET result == CopyAndConvertFrame(
                                  conversion.src_span, conversion.format,
                                  conversion.src_stride, conversion.src_coded_height,
                                  conversion.output, conversion.output_size)
                IN  conversion' = Converted([data |-> result.data,
                                             check_failed |-> result.check_failed,
                                             undefined |-> "no"])
    /\ UNCHANGED <<device_vars, allowlists, tiles, manager, notifier>>

GeometryNext ==
    \/ MeasureFrame
    \/ MapFrame
    \/ ConvertFrame

GeometrySpec == GeometryInit /\ [][GeometryNext]_vars

\* ----------------------------------------------------------- WebUIAllowlist
Profiles == {"profile1", "profile2"}

\* url::Origin values of the schemes RegisterAutoGrantedPermission() accepts.
Origins ==
    {[scheme |-> "chrome", host |-> "test"],
     [scheme |-> "chrome", host |-> "no-perm"],
     [scheme |-> "chrome-untrusted", host |-> "test"]}

\* The order of std::map<url::Origin, ContentSetting>.
OriginOrder ==
    <<[scheme |-> "chrome", host |-> "no-perm"],
      [scheme |-> "chrome", host |-> "test"],
      [scheme |-> "chrome-untrusted", host |-> "test"]>>

ContentSettingsTypes == {"BLUETOOTH_GUARD", "GEOLOCATION"}

ContentSettings == {"CONTENT_SETTING_ALLOW", "CONTENT_SETTING_BLOCK"}

\* A std::map with no key.
EmptyMap == <<>>

\* map[key] = value.
MapPut(map, key, value) ==
    [k \in DOMAIN map \cup {key} |-> IF k = key THEN value ELSE map[k]]

\* map.insert({key, value}): an existing key keeps its value.
MapInsert(map, key, value) ==
    [k \in DOMAIN map \cup {key} |-> IF k \in DOMAIN map THEN map[k] ELSE value]

\* url::Origin::GetURL().
GetURL(origin) == [scheme |-> origin.scheme, host |-> origin.host, path |-> "/"]

\* ContentSettingsPattern::FromURLNoWildcard().
FromURLNoWildcard(url) ==
    [scheme |-> url.scheme, host |-> url.host, has_domain_wildcard |-> FALSE,
     is_path_wildcard |-> TRUE]

\* ContentSettingsPattern::Wildcard().
Wildcard == [scheme |-> "*", host |-> "*", has_domain_wildcard |-> TRUE,
             is_path_wildcard |-> TRUE]

\* No user data under kWebUIAllowlistKeyName.
NoAllowlist == [created |-> FALSE]

\* WebUIAllowlist::WebUIAllowlist(); notifications: the calls of
\* NotifyContentSettingChange() made on the provider.
NewAllowlist ==
    [created |-> TRUE, permissions_ |-> EmptyMap, provider_ |-> FALSE,
     notifications |-> <<>>]

\* WebUIAllowlist::GetOrCreate(), on the user data of every profile.
GetOrCreate(user_data, profile) ==
    IF user_data[profile] = NoAllowlist
    THEN [user_data EXCEPT ![profile] = NewAllowlist]
    ELSE user_data

\* RegisterAutoGrantedPermission() that keeps the setting an origin has.
RegisterAutoGrantedPermission_KeepsFirst(allowlist, origin, type, setting) ==
    LET rules == IF type \in DOMAIN allowlist.permissions_
                 THEN allowlist.permissions_[type] ELSE EmptyMap
        a == [allowlist EXCEPT
                 !.permissions_ = MapPut(@, type, MapInsert(rules, origin, setting))]
    IN  IF a.provider_
        THEN [a EXCEPT !.notifications =
                 Append(@, [primary_pattern |-> FromURLNoWildcard(GetURL(origin)),
                            secondary_pattern |-> Wildcard, type |-> type])]
        ELSE a

RegisterAutoGrantedPermission(allowlist, origin, type, setting) ==
    LET rules == IF type \in DOMAIN allowlist.permissions_
                 THEN allowlist.permissions_[type] ELSE EmptyMap
        a == [allowlist EXCEPT
                 !.permissions_ = MapPut(@, type, MapPut(rules, origin, setting))]
    IN  IF a.provider_
        THEN [a EXCEPT !.notifications =
                 Append(@, [primary_pattern |-> FromURLNoWildcard(GetURL(origin)),
                            secondary_pattern |-> Wildcard, type |-> type])]
        ELSE a

SetWebUIAllowlistProvider(allowlist) == [allowlist EXCEPT !.provider_ = TRUE]

ResetWebUIAllowlistProvider(allowlist) == [allowlist EXCEPT !.provider_ = FALSE]

\* The rules HasNext() and Next() of an AllowlistRuleIterator over the map give
\* until HasNext() is false.
AllowlistRuleIterator(map) ==
    LET keys == SelectSeq(OriginOrder, LAMBDA origin : origin \in DOMAIN map)
    IN  [i \in DOMAIN keys |->
            [primary_pattern |-> FromURLNoWildcard(GetURL(keys[i])),
             secondary_pattern |-> Wildcard, value |-> map[keys[i]]]]

\* is_null: the pointer returned is nullptr; rules: what the iterator gives.
GetRuleIterator(allowlist, content_type) ==
    IF content_type \in DOMAIN allowlist.permissions_
    THEN [is_null |-> FALSE,
          rules |-> AllowlistRuleIterator(allowlist.permissions_[content_type])]
    ELSE [is_null |-> TRUE, rules |-> <<>>]

\* user_data: the WebUIAllowlist of every profile; history: the registrations
\* made, in order.
AllowlistInit ==
    /\ DeviceInit
    /\ conversion = NoConversion
    /\ tiles = NoTiles
    /\ manager = NoManager
    /\ notifier = NoNotifier
    /\ allowlists = [phase |-> "profiles",
                     user_data |-> [profile \in Profiles |-> NoAllowlist],
                     history |-> <<>>]

Register ==
    /\ Len(allowlists.history) < MaxRegistrations
    /\ \E profile \in Profiles, origin \in Origins, type \in ContentSettingsTypes,
          setting \in ContentSettings :
          LET user_data == GetOrCreate(allowlists.user_data, profile)
          IN  allowlists' =
                  [allowlists EXCEPT
                      !.user_data =
                          [user_data EXCEPT ![profile] =
                              RegisterAutoGrantedPermission(@, origin, type, setting)],
                      !.history = Append(@, [profile |-> profile, origin |-> origin,
                                             type |-> type, setting |-> setting])]
    /\ UNCHANGED <<device_vars, conversion, tiles, manager, notifier>>

\* WebUIAllowlistProvider of the profile is made.
ProviderCreated ==
    /\ \E profile \in Profiles :
          LET user_data == GetOrCreate(allowlists.user_data, profile)
          IN  /\ ~user_data[profile].provider_
              /\ allowlists' =
                     [allowlists EXCEPT
                         !.user_data = [user_data EXCEPT ![profile] =
                                            SetWebUIAllowlistProvider(@)]]
    /\ UNCHANGED <<device_vars, conversion, tiles, manager, notifier>>

\* WebUIAllowlistProvider of the profile shuts down.
ProviderShutDown ==
    /\ \E profile \in Profiles :
          /\ allowlists.user_data[profile] # NoAllowlist
          /\ allowlists.user_data[profile].provider_
          /\ allowlists' =
                 [allowlists EXCEPT
                     !.user_data[profile] = ResetWebUIAllowlistProvider(@)]
    /\ UNCHANGED <<device_vars, conversion, tiles, manager, notifier>>

AllowlistNext ==
    \/ Register
    \/ ProviderCreated
    \/ ProviderShutDown

AllowlistSpec == AllowlistInit /\ [][AllowlistNext]_vars

\* --------------------------------------------------------- proto_conversion
\* base::Time counts microseconds.
MicrosecondsPerMillisecond == 1000

TimeToMilliseconds(time) == time \div MicrosecondsPerMillisecond

MillisecondsToTime(serialized_time_ms) == serialized_time_ms * MicrosecondsPerMillisecond

\* GURL(string): the string is parsed and brought to its canonical form; what
\* does not parse is an invalid GURL that keeps the string.
CanonicalUrls ==
    [x \in {"https://a.test/1.png", "HTTPS://A.test/2.png", "https://a.test/2.png"} |->
        IF x = "HTTPS://A.test/2.png" THEN "https://a.test/2.png" ELSE x]

GURL(string) ==
    IF string \in DOMAIN CanonicalUrls
    THEN [is_valid |-> TRUE, spec |-> CanonicalUrls[string]]
    ELSE [is_valid |-> FALSE, spec |-> string]

\* GURL::spec(): the canonical string of a valid GURL, and the empty string of
\* an invalid one.
UrlSpec(url) == IF url.is_valid \/ url.spec = "" THEN url.spec ELSE ""

\* The strings image URLs are made of.
UrlStrings == {"", "https://a.test/1.png", "HTTPS://A.test/2.png", "not a url"}

\* Tile(), with the texts of the n-th tile of the group.
NewTile(n) ==
    [id |-> <<"id", n>>, query_text |-> <<"query", n>>,
     display_text |-> <<"display", n>>, accessibility_text |-> <<"accessibility", n>>,
     image_metadatas |-> <<>>, sub_tiles |-> <<>>]

\* A Tile and a TileProto just constructed.
EmptyTile ==
    [id |-> "", query_text |-> "", display_text |-> "", accessibility_text |-> "",
     image_metadatas |-> <<>>, sub_tiles |-> <<>>]

EmptyGroup == [id |-> "", locale |-> "", last_updated_ts |-> 0, tiles |-> <<>>]

EmptyGroupProto == [id |-> "", locale |-> "", last_updated_time_ms |-> 0, tiles |-> <<>>]

RECURSIVE TileToProto_SubTilesReversed(_, _)
\* TileToProto() that stores the sub-tiles last to first.
TileToProto_SubTilesReversed(entry, proto) ==
    [id |-> entry.id, query_text |-> entry.query_text,
     display_text |-> entry.display_text,
     accessibility_text |-> entry.accessibility_text,
     image_metadatas |->
         proto.image_metadatas
             \o [i \in DOMAIN entry.image_metadatas |->
                    [url |-> UrlSpec(entry.image_metadatas[i].url)]],
     sub_tiles |->
         proto.sub_tiles
             \o [i \in DOMAIN entry.sub_tiles |->
                    TileToProto_SubTilesReversed(
                        entry.sub_tiles[Len(entry.sub_tiles) + 1 - i], EmptyTile)]]

RECURSIVE TileToProto(_, _)
\* proto: the TileProto before the call; the value: the TileProto after it.
TileToProto(entry, proto) ==
    [id |-> entry.id, query_text |-> entry.query_text,
     display_text |-> entry.display_text,
     accessibility_text |-> entry.accessibility_text,
     image_metadatas |->
         proto.image_metadatas
             \o [i \in DOMAIN entry.image_metadatas |->
                    [url |-> UrlSpec(entry.image_metadatas[i].url)]],
     sub_tiles |->
         proto.sub_tiles
             \o [i \in DOMAIN entry.sub_tiles |->
                    TileToProto(entry.sub_tiles[i], EmptyTile)]]

RECURSIVE TileFromProto(_, _)
\* entry: the Tile before the call; the value: the Tile after it.
TileFromProto(proto, entry) ==
    [id |-> proto.id, query_text |-> proto.query_text,
     display_text |-> proto.display_text,
     accessibility_text |-> proto.accessibility_text,
     image_metadatas |->
         entry.image_metadatas
             \o [i \in DOMAIN proto.image_metadatas |->
                    [url |-> GURL(proto.image_metadatas[i].url)]],
     sub_tiles |->
         entry.sub_tiles
             \o [i \in DOMAIN proto.sub_tiles |->
                    TileFromProto(proto.sub_tiles[i], EmptyTile)]]

TileGroupToProto(group, proto) ==
    [id |-> group.id, locale |-> group.locale,
     last_updated_time_ms |-> TimeToMilliseconds(group.last_updated_ts),
     tiles |-> proto.tiles
                  \o [i \in DOMAIN group.tiles |-> TileToProto(group.tiles[i], EmptyTile)]]

TileGroupFromProto(proto, group) ==
    [id |-> proto.id, locale |-> proto.locale,
     last_updated_ts |-> MillisecondsToTime(proto.last_updated_time_ms),
     tiles |-> group.tiles
                  \o [i \in DOMAIN proto.tiles |-> TileFromProto(proto.tiles[i], EmptyTile)]]

\* The tiles are made in the order of the tree, so that a new tile is the last
\* sub-tile of a tile on the path from the group to the tile made last.
RECURSIVE LastPath(_)
LastPath(sub_tiles) ==
    IF sub_tiles = <<>> THEN 0 ELSE 1 + LastPath(sub_tiles[Len(sub_tiles)].sub_tiles)

RECURSIVE AddSubTile(_, _, _)
\* tile is made the last of the sub-tiles that lie depth tiles down the path.
AddSubTile(sub_tiles, depth, tile) ==
    IF depth = 0
    THEN Append(sub_tiles, tile)
    ELSE [sub_tiles EXCEPT ![Len(sub_tiles)].sub_tiles = AddSubTile(@, depth - 1, tile)]

RECURSIVE AddImageMetadata(_, _)
\* The tile made last gets one more image.
AddImageMetadata(sub_tiles, url) ==
    IF sub_tiles[Len(sub_tiles)].sub_tiles = <<>>
    THEN [sub_tiles EXCEPT ![Len(sub_tiles)].image_metadatas = Append(@, [url |-> url])]
    ELSE [sub_tiles EXCEPT ![Len(sub_tiles)].sub_tiles = AddImageMetadata(@, url)]

\* group: the TileGroup; proto: the TileGroupProto it is stored in; loaded: the
\* TileGroup read back from the proto.
TileInit ==
    /\ DeviceInit
    /\ conversion = NoConversion
    /\ allowlists = NoAllowlists
    /\ manager = NoManager
    /\ notifier = NoNotifier
    /\ \E ms \in 0..MaxMilliseconds, us \in {0, 1, MicrosecondsPerMillisecond - 1} :
          tiles = [phase |-> "group",
                   group |-> [id |-> "group", locale |-> "en",
                              last_updated_ts |-> ms * MicrosecondsPerMillisecond + us,
                              tiles |-> <<>>],
                   tile_count |-> 0, image_count |-> 0,
                   proto |-> EmptyGroupProto, loaded |-> EmptyGroup]

AddTile ==
    /\ tiles.phase = "group"
    /\ tiles.tile_count < MaxTiles
    /\ \E depth \in 0..LastPath(tiles.group.tiles) :
          tiles' = [tiles EXCEPT
                       !.group.tiles = AddSubTile(@, depth, NewTile(tiles.tile_count + 1)),
                       !.tile_count = @ + 1]
    /\ UNCHANGED <<device_vars, conversion, allowlists, manager, notifier>>

AddImage ==
    /\ tiles.phase = "group"
    /\ tiles.tile_count > 0
    /\ tiles.image_count < MaxImages
    /\ \E string \in UrlStrings :
          tiles' = [tiles EXCEPT
                       !.group.tiles = AddImageMetadata(@, GURL(string)),
                       !.image_count = @ + 1]
    /\ UNCHANGED <<device_vars, conversion, allowlists, manager, notifier>>

StoreGroup ==
    /\ tiles.phase = "group"
    /\ tiles' = [tiles EXCEPT !.phase = "stored",
                              !.proto = TileGroupToProto(tiles.group, EmptyGroupProto)]
    /\ UNCHANGED <<device_vars, conversion, allowlists, manager, notifier>>

LoadGroup ==
    /\ tiles.phase = "stored"
    /\ tiles' = [tiles EXCEPT !.phase = "loaded",
                              !.loaded = TileGroupFromProto(tiles.proto, EmptyGroup)]
    /\ UNCHANGED <<device_vars, conversion, allowlists, manager, notifier>>

TileNext ==
    \/ AddTile
    \/ AddImage
    \/ StoreGroup
    \/ LoadGroup

TileSpec == TileInit /\ [][TileNext]_vars

\* --------------------------------------------------- ConversionManagerImpl
\* ManagerSpec models ConversionManagerImpl
\* (content/browser/conversions/conversion_manager_impl.cc) with its two
\* sequences: the manager lives on one, its ConversionStorage on the storage
\* sequence, and the tasks of each sequence run in the order they were posted.
\* storage_ is TRUE while it points at the storage and FALSE when it is null;
\* a task bound with base::Unretained(storage_.get()) carries the pointer it
\* was bound with.

\* storage_task_runner_->PostTask / PostTaskAndReply(WithResult): the task is
\* bound to the value of storage_.get() at the call.
PostStorageTask(m, method, reply) ==
    [m EXCEPT !.storage_tasks =
                  Append(@, [method |-> method, storage |-> m.storage_, reply |-> reply])]

\* storage_.reset() and the destruction of storage_: base::OnTaskRunnerDeleter
\* posts the deletion of the storage to the storage sequence; a null storage_
\* posts nothing.
ResetStorage(m) ==
    IF m.storage_
    THEN [m EXCEPT !.storage_ = FALSE,
                   !.storage_tasks =
                       Append(@, [method |-> "delete", storage |-> TRUE, reply |-> "none"])]
    ELSE m

HandleImpression(m) ==
    IF ~m.storage_ THEN m ELSE PostStorageTask(m, "StoreImpression", "none")

HandleConversion(m) ==
    IF ~m.storage_ THEN m
    ELSE PostStorageTask(m, "MaybeCreateAndStoreConversionReports", "none")

HandleSentReport(m) == PostStorageTask(m, "DeleteConversion", "none")

GetActiveImpressionsForWebUI(m) == PostStorageTask(m, "GetActiveImpressions", "callback")

GetReportsForWebUI(m) == PostStorageTask(m, "GetConversionsToReport", "callback")

ClearData(m) == PostStorageTask(m, "ClearData", "done")

GetAndHandleReports(m, handler_function) ==
    PostStorageTask(m, "GetConversionsToReport", handler_function)

GetAndQueueReportsForNextInterval(m) == GetAndHandleReports(m, "QueueReports")

OnInitCompleted(m, success) ==
    IF ~success
    THEN ResetStorage(m)
    ELSE [GetAndHandleReports(m, "HandleReportsExpiredAtStartup")
             EXCEPT !.timer_running = TRUE]

\* The replies bound to weak_factory_.GetWeakPtr(): dropped once the manager
\* is destroyed.
WeakReplies == {"OnInitCompleted", "HandleReportsExpiredAtStartup", "QueueReports"}

\* The manager after its constructor: the storage exists and its
\* initialization is posted.
ManagerInit ==
    /\ DeviceInit
    /\ conversion = NoConversion
    /\ allowlists = NoAllowlists
    /\ tiles = NoTiles
    /\ notifier = NoNotifier
    /\ manager = PostStorageTask(
                     [phase |-> "constructed", storage_ |-> TRUE,
                      storage_deleted |-> FALSE, storage_tasks |-> <<>>,
                      replies |-> <<>>, timer_running |-> FALSE, destroyed |-> FALSE,
                      faults |-> {}, calls |-> 0],
                     "Initialize", "OnInitCompleted")

\* A call of the manager's owner, or the timer.
ManagerCall(m) ==
    /\ ~manager.destroyed
    /\ manager.faults = {}
    /\ manager.calls < MaxManagerCalls
    /\ manager' = [m EXCEPT !.calls = @ + 1]
    /\ UNCHANGED <<device_vars, conversion, allowlists, tiles, notifier>>

Impression == ManagerCall(HandleImpression(manager))

Conversion == ManagerCall(HandleConversion(manager))

SentReport == ManagerCall(HandleSentReport(manager))

ImpressionsForWebUI == ManagerCall(GetActiveImpressionsForWebUI(manager))

ReportsForWebUI == ManagerCall(GetReportsForWebUI(manager))

Clear == ManagerCall(ClearData(manager))

TimerFires ==
    /\ manager.timer_running
    /\ ManagerCall(GetAndQueueReportsForNextInterval(manager))

\* ~ConversionManagerImpl(): the weak pointers are invalidated, the timer is
\* stopped and storage_ is destroyed.
DestroyManager ==
    /\ ~manager.destroyed
    /\ manager.faults = {}
    /\ manager' = [ResetStorage(manager) EXCEPT !.destroyed = TRUE,
                                                !.timer_running = FALSE]
    /\ UNCHANGED <<device_vars, conversion, allowlists, tiles, notifier>>

\* The storage sequence runs its next task.  A method called through a null
\* pointer or on the deleted storage is undefined; the model records it and
\* stops.  Initialize() succeeds or fails.
RunStorageTask ==
    /\ manager.faults = {}
    /\ manager.storage_tasks # <<>>
    /\ LET task == Head(manager.storage_tasks)
           m == [manager EXCEPT !.storage_tasks = Tail(@)]
       IN  IF task.method = "delete"
           THEN manager' = [m EXCEPT !.storage_deleted = TRUE]
           ELSE IF ~task.storage
           THEN manager' = [m EXCEPT !.faults = @ \cup {"null_storage"}]
           ELSE IF manager.storage_deleted
           THEN manager' = [m EXCEPT !.faults = @ \cup {"deleted_storage"}]
           ELSE IF task.method = "Initialize"
           THEN \E success \in BOOLEAN :
                   manager' = [m EXCEPT !.replies =
                                   Append(@, [reply |-> task.reply, success |-> success])]
           ELSE IF task.reply # "none"
           THEN manager' = [m EXCEPT !.replies =
                                Append(@, [reply |-> task.reply, success |-> TRUE])]
           ELSE manager' = m
    /\ UNCHANGED <<device_vars, conversion, allowlists, tiles, notifier>>

\* The manager's sequence runs its next reply.
RunReply ==
    /\ manager.faults = {}
    /\ manager.replies # <<>>
    /\ LET reply == Head(manager.replies)
           m == [manager EXCEPT !.replies = Tail(@)]
       IN  IF reply.reply \in WeakReplies /\ manager.destroyed
           THEN manager' = m
           ELSE IF reply.reply = "OnInitCompleted"
           THEN manager' = OnInitCompleted(m, reply.success)
           ELSE manager' = m
    /\ UNCHANGED <<device_vars, conversion, allowlists, tiles, notifier>>

ManagerNext ==
    \/ Impression
    \/ Conversion
    \/ SentReport
    \/ ImpressionsForWebUI
    \/ ReportsForWebUI
    \/ Clear
    \/ TimerFires
    \/ DestroyManager
    \/ RunStorageTask
    \/ RunReply

ManagerSpec == ManagerInit /\ [][ManagerNext]_vars

\* -------------------------------------------------- ManifestChangeNotifier
\* NotifierSpec models ManifestChangeNotifier (third_party/blink/renderer/
\* modules/manifest/manifest_change_notifier.cc) with the task runner it posts
\* its report task to.  can_fetch is ManifestManager::CanFetchManifest() of the
\* window (false for a document of a unique origin), loading is IsLoading() of
\* its frame, attached is whether the window still has a frame, and provider
\* whether the frame has remote navigation associated interfaces.
ManifestUrls == {"null", "manifest.json"}

EnsureManifestChangeObserver(n) ==
    IF n.manifest_change_observer_ THEN n
    ELSE IF ~n.provider THEN n
    ELSE [n EXCEPT !.manifest_change_observer_ = TRUE]

ReportManifestChange(n) ==
    LET a == [n EXCEPT !.report_task_scheduled_ = FALSE, !.reports = @ + 1]
        b == EnsureManifestChangeObserver(a)
    IN  IF ~a.attached THEN a
        ELSE IF ~b.manifest_change_observer_ THEN b
        ELSE [b EXCEPT !.notifications = @ + 1,
                       !.notified = IF b.manifest_url = "null"
                                    THEN "nullopt" ELSE b.manifest_url]

\* DidChangeManifest() without the return on report_task_scheduled_.
DidChangeManifest_NoCoalescing(n) ==
    IF ~n.can_fetch THEN n
    ELSE IF ~n.loading
    THEN [n EXCEPT !.report_task_scheduled_ = TRUE, !.tasks = @ + 1]
    ELSE ReportManifestChange(n)

DidChangeManifest(n) ==
    IF ~n.can_fetch THEN n
    ELSE IF n.report_task_scheduled_ THEN n
    ELSE IF ~n.loading
    THEN [n EXCEPT !.report_task_scheduled_ = TRUE, !.tasks = @ + 1]
    ELSE ReportManifestChange(n)

\* The notifier after its constructor, in a window that can or cannot fetch
\* manifests, whose frame is loading or not.
NotifierInit ==
    /\ DeviceInit
    /\ conversion = NoConversion
    /\ allowlists = NoAllowlists
    /\ tiles = NoTiles
    /\ manager = NoManager
    /\ \E can_fetch \in BOOLEAN, provider \in BOOLEAN, loading \in BOOLEAN :
          notifier = [phase |-> "constructed", report_task_scheduled_ |-> FALSE,
                      manifest_change_observer_ |-> FALSE, tasks |-> 0,
                      can_fetch |-> can_fetch, provider |-> provider,
                      loading |-> loading, attached |-> TRUE,
                      manifest_url |-> "null", changes |-> 0, reports |-> 0,
                      notifications |-> 0, notified |-> "none"]

\* The document changes its manifest link: the manifest URL is the new one and
\* the notifier is told.
ChangeManifest ==
    /\ notifier.attached
    /\ notifier.changes < MaxChanges
    /\ \E url \in ManifestUrls :
          notifier' = [DidChangeManifest([notifier EXCEPT !.manifest_url = url])
                          EXCEPT !.changes = @ + 1]
    /\ UNCHANGED <<device_vars, conversion, allowlists, tiles, manager>>

\* The task runner runs the report task.
RunReportTask ==
    /\ notifier.tasks > 0
    /\ notifier' = ReportManifestChange([notifier EXCEPT !.tasks = @ - 1])
    /\ UNCHANGED <<device_vars, conversion, allowlists, tiles, manager>>

\* The frame starts or finishes loading.
SetLoading ==
    /\ notifier.attached
    /\ notifier' = [notifier EXCEPT !.loading = ~@]
    /\ UNCHANGED <<device_vars, conversion, allowlists, tiles, manager>>

\* The frame is detached from the window.
DetachFrame ==
    /\ notifier.attached
    /\ notifier' = [notifier EXCEPT !.attached = FALSE, !.loading = FALSE]
    /\ UNCHANGED <<device_vars, conversion, allowlists, tiles, manager>>

NotifierNext ==
    \/ ChangeManifest
    \/ RunReportTask
    \/ SetLoading
    \/ DetachFrame

NotifierSpec == NotifierInit /\ [][NotifierNext]_vars

\* ------------------------------------------------------------------ claims
CallIndices(call) == {i \in DOMAIN calls : calls[i].call = call}

NoRequestOutstanding ==
    /\ resolution_watches = 0
    /\ collection_watches = 0
    /\ frame_requests = 0
    /\ create_pending = 0
    /\ reader_pending = 0

\* The frames the client was handed, in the order of the calls.
DeliveredIds ==
    LET d == SelectSeq(calls, LAMBDA c : c.call = "OnIncomingCapturedBufferExt")
    IN  [i \in DOMAIN d |-> d[i].frame]

\* The outcomes in which GetMappingForBuffer() was called with the frame's index.
MappedOutcomes == {"FailedToMapBuffer", "BufferTooSmall", "Delivered"}

\* C1: within one AllocateAndStart()/StopAndDeAllocate() cycle the client's
\* OnError is invoked at most once, whatever faults follow the first one.
C1_OnErrorAtMostOnce == Cardinality(CallIndices("OnError")) <= 1

\* C2: on every stream, the first one and every later one, once a reader has
\* been created and validated OnStarted has been signaled exactly once to the
\* stream's client and the frame pull loop is running.
C2_StartedOncePerStream ==
    buffer_reader_ # NoReader =>
        /\ Cardinality(CallIndices("OnStarted")) = 1
        /\ frame_requests = 1

\* C3: after StopAndDeAllocate() and a new AllocateAndStart() capture resumes:
\* once negotiation has completed with a valid format on the new stream, a
\* get-next-frame request is outstanding, so that the frames the stream
\* produces are received and delivered.
C3_RestartResumesCapture ==
    (cycle > 1 /\ stream_ /\ buffer_reader_ # NoReader) => frame_requests > 0

\* C4: after OnError has been invoked on a client, no OnStarted, no
\* ReserveOutputBuffer and no frame delivery is made to that client.
C4_NothingAfterOnError ==
    \A i, j \in DOMAIN calls :
        (i < j /\ calls[i].call = "OnError") => calls[j].call = "OnError"

C4_Witness ==
    /\ sent_tokens >= 2
    /\ CallIndices("OnIncomingCapturedBufferExt") # {}
    /\ \E i \in DOMAIN calls :
          calls[i].call = "OnError" /\ calls[i].error = "MissingImageFormat"

\* C5: after StopAndDeAllocate() or a fatal error no continuation is left that
\* could run later: no resolution watch, token watch, frame pull, pool creation
\* or reader creation is outstanding.
C5_TeardownCancelsContinuations ==
    (client_ = 0 \/ (calls # <<>> /\ calls[Len(calls)].call = "OnError"))
        => NoRequestOutstanding

C5_Witness ==
    /\ client_ # 0
    /\ frames # <<>>
    /\ frames[Len(frames)].outcome = "BufferTooSmall"
    /\ sent_hints < MaxHints
    /\ sent_tokens < MaxRounds
    /\ NoRequestOutstanding

Cleared ==
    /\ ~stream_
    /\ buffer_collection_creator_ = 0
    /\ buffer_collection_ = 0
    /\ buffer_reader_ = NoReader
    /\ frame_size_ = NoSize
    /\ client_ = 0

\* C6: StopAndDeAllocate() called in any state leaves no stream, pool creator,
\* pool, reader, resolution hint or client, and called in such a state it
\* changes nothing and calls no client method.
C6_StopClearsAndIsIdempotent ==
    [][Stop => (Cleared' /\ (Cleared => UNCHANGED vars))]_vars

C6_Witness ==
    /\ Cleared
    /\ CallIndices("OnIncomingCapturedBufferExt") # {}
    /\ CallIndices("OnError") # {}

\* C7: every frame whose buffer index was handed to the reader was captured
\* against the pool of that reader.
C7_FramesUseActivePool ==
    \A i \in DOMAIN frames :
        frames[i].outcome \in MappedOutcomes => frames[i].pool = frames[i].via

\* C8: the delivered frames are, in the same order and each once, the received
\* frames that were neither dropped nor ended in a fatal error.
C8_DeliveredInOrder ==
    /\ \A i \in DOMAIN frames : frames[i].id = i
    /\ \A i, j \in DOMAIN DeliveredIds : i < j => DeliveredIds[i] < DeliveredIds[j]
    /\ {DeliveredIds[i] : i \in DOMAIN DeliveredIds}
           = {frames[i].id : i \in {k \in DOMAIN frames : frames[k].outcome = "Delivered"}}

C8_Witness ==
    /\ Len(frames) = 3
    /\ frames[1].outcome = "Delivered"
    /\ frames[2].outcome = "NoBuffer"
    /\ frames[3].outcome = "Delivered"
    /\ DeliveredIds = <<1, 3>>

FailedReservationStep ==
    /\ Len(frames') = Len(frames) + 1
    /\ frames'[Len(frames')].outcome = "NoBuffer"

\* C10: a frame whose output reservation fails is dropped with no OnError and
\* no delivery, stream, pool and reader stay as they are and the pull loop goes
\* on; the frame after it, if it passes its own checks, is delivered.
C10_BackpressureDropsOneFrame ==
    [][/\ FailedReservationStep =>
            /\ stream_'
            /\ buffer_collection_creator_' = buffer_collection_creator_
            /\ buffer_collection_' = buffer_collection_
            /\ buffer_reader_' = buffer_reader_
            /\ buffer_reader_ # NoReader
            /\ frame_requests' = 1
            /\ calls' = Append(calls, [call |-> "ReserveOutputBuffer",
                                       frame |-> Len(frames'), error |-> "none"])
       /\ ( /\ frames # <<>>
            /\ frames[Len(frames)].outcome = "NoBuffer"
            /\ buffer_reader_ # NoReader
            /\ in_flight.buffer_index < buffer_reader_.num_buffers
            /\ FrameReplyWith(TRUE, SrcBufferSize(ImageFormatConstraints)) )
             => /\ frames'[Len(frames')].outcome = "Delivered"
                /\ calls'[Len(calls')] = [call |-> "OnIncomingCapturedBufferExt",
                                          frame |-> Len(frames'), error |-> "none"]
      ]_vars

C10_Witness ==
    /\ Len(frames) >= 2
    /\ frames[Len(frames) - 1].outcome = "NoBuffer"
    /\ frames[Len(frames)].outcome = "Delivered"
    /\ CallIndices("OnError") = {}

\* C11: the frame rate delivered with a frame is the number of frames received
\* since the last AllocateAndStart(), this frame included, divided by the frame's
\* presentation timestamp, and it is 0 only when that timestamp is 0.
C11_FrameRateIsFramesOverElapsed ==
    \A i \in DOMAIN frames :
        frames[i].outcome = "Delivered" =>
            IF frames[i].timestamp = 0
            THEN frames[i].frame_rate[1] = 0
            ELSE frames[i].frame_rate[1] * frames[i].timestamp
                     = i * frames[i].frame_rate[2]

ErrorCall(error) == [call |-> "OnError", frame |-> 0, error |-> error]

\* C12: AllocateAndStart() called with the device connection gone reports
\* DeviceDisconnected once to the new client, opens no stream and issues no
\* watch, and nothing is called on that client afterwards; a device disconnect
\* with no client attached calls nobody.
C12_DeviceGoneAtStart ==
    [][/\ (Start /\ ~device_) =>
            /\ client_' = cycle + 1
            /\ calls' = <<ErrorCall("DeviceDisconnected")>>
            /\ ~stream_'
            /\ NoRequestOutstanding'
       /\ (~device_ /\ client_ # 0 /\ calls = <<ErrorCall("DeviceDisconnected")>>) =>
            (client_' = client_ => calls' = calls)
       /\ (DeviceDisconnected /\ client_ = 0) =>
            (calls' = calls /\ faults' = faults)
      ]_vars

C12_Witness ==
    /\ cycle = 2
    /\ client_ = 2
    /\ sent_tokens >= 1
    /\ ~device_
    /\ calls = <<ErrorCall("DeviceDisconnected")>>

\* C13: whenever the owner may call AllocateAndStart() (it has not called it
\* yet, or it has called StopAndDeAllocate() since) no stream is open and no
\* client is attached, also after a fatal error; an open stream is the one
\* stream of the current client.
C13_AtMostOneStream ==
    /\ ~owner_running => (client_ = 0 /\ ~stream_)
    /\ stream_ => (client_ = cycle /\ device_)

C13_Witness ==
    /\ cycle = 2
    /\ stream_
    /\ "unbound_stream" \in faults

\* C14: when reader creation completes, in any round, a format without
\* image-format constraints is the fatal error MissingImageFormat and a pixel
\* format other than I420, YV12 and NV12 is UnsupportedPixelFormat; stream, pool
\* and reader are torn down, and the round signals no OnStarted and starts no
\* pull.
C14_ReaderValidation ==
    [][\A n \in 1..MaxBuffers, has \in BOOLEAN, format \in PixelFormats :
          ( /\ ReaderReplyWith(n, has, format, ImageFormatConstraints)
            /\ (~has \/ format \notin {"I420", "YV12", "NV12"}) )
            => /\ calls' = Append(calls, ErrorCall(IF ~has THEN "MissingImageFormat"
                                                           ELSE "UnsupportedPixelFormat"))
               /\ ~stream_'
               /\ buffer_collection_creator_' = 0
               /\ buffer_collection_' = 0
               /\ buffer_reader_' = NoReader
               /\ NoRequestOutstanding'
      ]_vars

C14_Witness ==
    /\ sent_tokens = 2
    /\ CallIndices("OnStarted") # {}
    /\ calls[Len(calls)] = ErrorCall("UnsupportedPixelFormat")
    /\ buffer_reader_ = NoReader

\* C15: a failure of the allocation service while a pool or a reader is being
\* created tears the stream down and gives the client an OnError of the
\* allocation-service kind, and nothing is called through a missing pool or
\* reader.
C15_AllocationFailureIsFatalError ==
    "allocation_failed" \in faults =>
        /\ Running
        /\ ~stream_
        /\ \E i \in DOMAIN calls : calls[i] = ErrorCall("AllocationServiceDisconnected")

\* A frame arrives while a reader is there.
FrameStep ==
    /\ frame_requests > 0
    /\ in_flight # NoFrame
    /\ buffer_reader_ # NoReader
    /\ Len(frames') = Len(frames) + 1

\* C16: a frame whose buffer index is not below the reader's buffer count is
\* the fatal error InvalidBufferIndex, with no output buffer reserved, no
\* mapping requested and no delivery; every other frame passes the check.
C16_IndexChecked ==
    [][FrameStep =>
          IF in_flight.buffer_index >= buffer_reader_.num_buffers
          THEN /\ frames'[Len(frames')].outcome = "InvalidBufferIndex"
               /\ calls' = Append(calls, ErrorCall("InvalidBufferIndex"))
               /\ ~stream_'
               /\ buffer_reader_' = NoReader
          ELSE frames'[Len(frames')].outcome \in MappedOutcomes \cup {"NoBuffer"}
      ]_vars

C16_Witness ==
    /\ Len(frames) >= 2
    /\ frames[Len(frames) - 1].outcome = "Delivered"
    /\ frames[Len(frames)].outcome = "InvalidBufferIndex"
    /\ calls[Len(calls)] = ErrorCall("InvalidBufferIndex")

\* A frame whose index is in range arrives, its output buffer is reserved and
\* GetMappingForBuffer() returns span_size bytes.
MappedStep(span_size) ==
    /\ FrameStep
    /\ in_flight.buffer_index < buffer_reader_.num_buffers
    /\ FrameReplyWith(TRUE, span_size)

ReserveCall(frame) == [call |-> "ReserveOutputBuffer", frame |-> frame, error |-> "none"]

\* The frame fails with the error: it is reserved, then the error is reported,
\* and it is neither converted nor delivered.
FailsWith(error) ==
    /\ frames'[Len(frames')].outcome = error
    /\ calls' = calls \o <<ReserveCall(in_flight.id), ErrorCall(error)>>
    /\ ~stream_'

C18_ConvertsToI420 ==
    conversion.phase = "converted" =>
        LET y_size == conversion.output_size[1] * conversion.output_size[2]
        IN  /\ ~conversion.result.check_failed
            /\ conversion.result.data =
                   [i \in 1..(y_size + 2 * (y_size \div 4)) |->
                       IF i <= y_size THEN Samples.y
                       ELSE IF i <= y_size + y_size \div 4 THEN Samples.u
                       ELSE Samples.v]
            /\ GetConvertedPixelFormat(conversion.format) = "I420"

C18_Witness ==
    /\ conversion.phase = "converted"
    /\ conversion.format = "YV12"
    /\ conversion.stride > conversion.output_size[1]
    /\ conversion.coded_height > conversion.output_size[2]
    /\ conversion.result.data[Len(conversion.result.data)] = Samples.v

\* The registrations of the history for the profile, the type and the origin.
Registrations(profile, type, origin) ==
    SelectSeq(allowlists.history,
              LAMBDA r : r.profile = profile /\ r.type = type /\ r.origin = origin)

\* C19: after any sequence of registrations GetRuleIterator(type) on a
\* profile's allowlist gives one rule for every origin registered for the type
\* in that profile, with the setting of its last registration, and no other
\* rule; for a type with no registration in the profile it gives no iterator.
C19_RulesAreTheRegistrations ==
    \A profile \in Profiles, type \in ContentSettingsTypes :
        LET registered == {origin \in Origins :
                              Registrations(profile, type, origin) # <<>>}
            allowlist == allowlists.user_data[profile]
        IN  IF allowlist = NoAllowlist
            THEN registered = {}
            ELSE LET iterator == GetRuleIterator(allowlist, type)
                     rules == iterator.rules
                 IN  IF registered = {}
                     THEN iterator.is_null
                     ELSE /\ ~iterator.is_null
                          /\ Len(rules) = Cardinality(registered)
                          /\ \A origin \in registered :
                                \E i \in DOMAIN rules :
                                    LET made == Registrations(profile, type, origin)
                                    IN  /\ rules[i].primary_pattern.scheme = origin.scheme
                                        /\ rules[i].primary_pattern.host = origin.host
                                        /\ ~rules[i].primary_pattern.has_domain_wildcard
                                        /\ rules[i].secondary_pattern = Wildcard
                                        /\ rules[i].value = made[Len(made)].setting

\* An origin registered with one setting and then with the other, while the
\* other profile has an allowlist with no registration.
C19_Witness ==
    /\ Len(allowlists.history) = 2
    /\ allowlists.history[1].profile = "profile1"
    /\ allowlists.history[2] =
           [allowlists.history[1] EXCEPT !.setting = "CONTENT_SETTING_BLOCK"]
    /\ allowlists.history[1].setting = "CONTENT_SETTING_ALLOW"
    /\ allowlists.user_data["profile2"] # NoAllowlist
    /\ allowlists.user_data["profile1"].notifications # <<>>

RECURSIVE ImageUrls(_)
\* The image URLs of the tiles and of their sub-tiles.
ImageUrls(sub_tiles) ==
    UNION {{sub_tiles[i].image_metadatas[j].url :
                j \in DOMAIN sub_tiles[i].image_metadatas}
           \cup ImageUrls(sub_tiles[i].sub_tiles) : i \in DOMAIN sub_tiles}

WholeMilliseconds == tiles.group.last_updated_ts % MicrosecondsPerMillisecond = 0

\* C20 as stated: every tile, with its texts, its image URLs and its sub-tiles,
\* is read back from its proto identical and in the same order, and so is
\* every tile group whose last update is a whole number of milliseconds.
C20_RoundTrip ==
    tiles.phase = "loaded" =>
        /\ tiles.loaded.tiles = tiles.group.tiles
        /\ WholeMilliseconds => tiles.loaded = tiles.group

\* C20 as amended: every tile whose image URLs, and those of its sub-tiles, are
\* valid or empty is read back from its proto identical and in the same order,
\* and so is every group of such tiles whose last update is a whole number of
\* milliseconds; an invalid image URL that is not empty is read back empty.
C20_RoundTripOfValidUrls ==
    tiles.phase = "loaded" =>
        /\ \A i \in DOMAIN tiles.group.tiles :
              (\A url \in ImageUrls(<<tiles.group.tiles[i]>>) :
                   url.is_valid \/ url.spec = "")
                  => /\ i \in DOMAIN tiles.loaded.tiles
                     /\ tiles.loaded.tiles[i] = tiles.group.tiles[i]
        /\ Len(tiles.loaded.tiles) = Len(tiles.group.tiles)
        /\ tiles.loaded.id = tiles.group.id
        /\ tiles.loaded.locale = tiles.group.locale
        /\ WholeMilliseconds => tiles.loaded.last_updated_ts = tiles.group.last_updated_ts
        /\ \A url \in ImageUrls(tiles.loaded.tiles) : url.is_valid \/ url.spec = ""

\* A group of a tile with two images and a sub-tile with a sub-tile, last
\* updated a whole number of milliseconds after the epoch, has been read back.
C20_Witness ==
    /\ tiles.phase = "loaded"
    /\ tiles.group.last_updated_ts = MicrosecondsPerMillisecond
    /\ Len(tiles.group.tiles) = 1
    /\ Len(tiles.group.tiles[1].image_metadatas) = 2
    /\ tiles.group.tiles[1].image_metadatas[1].url.is_valid
    /\ tiles.group.tiles[1].image_metadatas[2].url.is_valid
    /\ tiles.group.tiles[1].image_metadatas[1] # tiles.group.tiles[1].image_metadatas[2]
    /\ LastPath(tiles.group.tiles) = 3
    /\ tiles.loaded = tiles.group

\* C21: no GetNextFrame, WatchResolution or WatchBufferCollection request is
\* issued on a stream that is not open; a frame that ends in a fatal error
\* ends the pull loop with no further GetNextFrame.
C21_NoRequestOnClosedStream == "unbound_stream" \notin faults

\* The state of the negotiator, read from the device: no stream; a stream that
\* has sent no token yet; a pool or a reader being created; a reader in place.
NegotiatorState ==
    IF ~stream_ THEN "Idle"
    ELSE IF buffer_collection_creator_ = 0 THEN "AwaitingToken"
    ELSE IF buffer_reader_ = NoReader THEN "Allocating"
    ELSE "Ready"

\* C22 as stated: the negotiator moves only along Idle -> AwaitingToken ->
\* Allocating -> Ready and back to await the next token, or to Idle on
\* teardown; the watch for the next token is outstanding only before the first
\* token and after a round has reached Ready, and no token is accepted while a
\* round is Allocating.
C22_WatchAfterReady ==
    [][/\ <<NegotiatorState, NegotiatorState'>> \in
              {<<"Idle", "Idle">>, <<"Idle", "AwaitingToken">>,
               <<"AwaitingToken", "AwaitingToken">>, <<"AwaitingToken", "Allocating">>,
               <<"Allocating", "Allocating">>, <<"Allocating", "Ready">>,
               <<"Ready", "Ready">>, <<"Ready", "AwaitingToken">>,
               <<"Ready", "Allocating">>,
               <<"AwaitingToken", "Idle">>, <<"Allocating", "Idle">>, <<"Ready", "Idle">>}
       /\ (NegotiatorState' = "Allocating" /\ Running') => collection_watches' = 0
       /\ TokenReply => NegotiatorState # "Allocating"
      ]_vars

\* C22 as amended: the negotiator moves only along Idle -> AwaitingToken ->
\* Allocating -> Ready, from Ready or from Allocating to Allocating when a new
\* token arrives, or to Idle on teardown; the watch for the next token is
\* issued in the step that receives a token, so that one watch is outstanding
\* in every state but Idle and a token is accepted while a round is Allocating,
\* which it supersedes.
C22_WatchReissuedWithToken ==
    [][/\ <<NegotiatorState, NegotiatorState'>> \in
              {<<"Idle", "Idle">>, <<"Idle", "AwaitingToken">>,
               <<"AwaitingToken", "AwaitingToken">>, <<"AwaitingToken", "Allocating">>,
               <<"Allocating", "Allocating">>, <<"Allocating", "Ready">>,
               <<"Ready", "Ready">>, <<"Ready", "Allocating">>,
               <<"AwaitingToken", "Idle">>, <<"Allocating", "Idle">>, <<"Ready", "Idle">>}
       /\ collection_watches' = (IF NegotiatorState' = "Idle" THEN 0 ELSE 1)
       /\ TokenReply =>
            /\ NegotiatorState # "Idle"
            /\ NegotiatorState' = "Allocating"
            /\ buffer_collection_creator_' = sent_tokens'
            /\ create_pending' = 1
            /\ reader_pending' = 0
      ]_vars

\* A token has arrived while the round before it was still Allocating, and
\* its own round has reached Ready.
C22_Witness ==
    /\ NegotiatorState = "Ready"
    /\ sent_tokens = 2
    /\ buffer_reader_.round = 2
    /\ allocated_pools = {2}

\* C23: the pool creator, the pool and the reader are those of the token
\* received last on the stream; the step that receives a token leaves no pool,
\* no reader and no reader creation pending, so that a completion of a
\* superseded token installs nothing, whatever the order of the completions.
C23_PoolOfLatestToken ==
    [][/\ stream_' => buffer_collection_creator_' = sent_tokens'
       /\ buffer_collection_' \in {0, sent_tokens'}
       /\ buffer_reader_' # NoReader =>
            (buffer_reader_'.round = sent_tokens' /\ buffer_collection_' = sent_tokens')
       /\ TokenReply =>
            /\ buffer_collection_' = 0
            /\ buffer_reader_' = NoReader
            /\ reader_pending' = 0
            /\ create_pending' = 1
       /\ (CreateReply \/ ReaderReply) =>
            buffer_collection_creator_ = sent_tokens
      ]_vars

\* The pool of the first token was created, a second token has arrived, and
\* the pool and the reader of the second token are in place.
C23_Witness ==
    /\ sent_tokens = 2
    /\ allocated_pools = {1, 2}
    /\ buffer_collection_ = 2
    /\ buffer_reader_ # NoReader
    /\ buffer_reader_.round = 2
    /\ CallIndices("OnIncomingCapturedBufferExt") = {}
    /\ frames = <<>>

\* A frame arrives while no reader is installed.
FrameWithoutReaderStep ==
    /\ frame_requests > 0
    /\ in_flight # NoFrame
    /\ buffer_reader_ = NoReader
    /\ Len(frames') = Len(frames) + 1

\* C24: a frame that arrives while no reader is installed is dropped: nothing
\* is called on the client, the stream, the pool creator, the pool, the
\* resolution hint and the pending completions stay as they are, and the one
\* get-next-frame request is issued again; when the reader of a later round is
\* then created and valid, OnStarted is not signaled again, the pull goes on,
\* and a frame that then passes its checks is delivered.
C24_FrameWithoutReaderDropped ==
    [][/\ FrameWithoutReaderStep =>
            /\ frames'[Len(frames')].outcome = "NoReader"
            /\ calls' = calls
            /\ faults' = faults
            /\ frame_requests' = 1
            /\ <<stream_, client_, started_, buffer_collection_creator_,
                 buffer_collection_, buffer_reader_, frame_size_, frames_received_,
                 start_time_, resolution_watches, collection_watches, create_pending,
                 reader_pending>>'
                   = <<stream_, client_, started_, buffer_collection_creator_,
                       buffer_collection_, buffer_reader_, frame_size_,
                       frames_received_, start_time_, resolution_watches,
                       collection_watches, create_pending, reader_pending>>
       /\ \A n \in 1..MaxBuffers, format \in {"I420", "YV12", "NV12"} :
            ( /\ frames # <<>>
              /\ frames[Len(frames)].outcome = "NoReader"
              /\ ReaderReplyWith(n, TRUE, format, ImageFormatConstraints) )
                => /\ calls' = calls
                   /\ frame_requests' = 1
                   /\ buffer_reader_' # NoReader
       /\ ( /\ frames # <<>>
            /\ frames[Len(frames)].outcome = "NoReader"
            /\ buffer_reader_ # NoReader
            /\ in_flight.buffer_index < buffer_reader_.num_buffers
            /\ FrameReplyWith(TRUE, SrcBufferSize(ImageFormatConstraints)) )
             => /\ frames'[Len(frames')].outcome = "Delivered"
                /\ calls'[Len(calls')] = [call |-> "OnIncomingCapturedBufferExt",
                                          frame |-> Len(frames'), error |-> "none"]
      ]_vars

\* A frame was dropped for want of a reader, and the frame after it was
\* delivered through the reader of the second round, with one OnStarted.
C24_Witness ==
    /\ Len(frames) >= 2
    /\ frames[Len(frames) - 1].outcome = "NoReader"
    /\ frames[Len(frames)].outcome = "Delivered"
    /\ frames[Len(frames)].via = 2
    /\ Cardinality(CallIndices("OnStarted")) = 1
    /\ CallIndices("OnError") = {}

\* What becomes of a frame whose checks are made in the order reader, buffer
\* index, reservation, mapping, size.
FirstFailedCheck(reader, index, reserve_ok, span_size) ==
    IF reader = NoReader THEN "NoReader"
    ELSE IF ~(index < reader.num_buffers) THEN "InvalidBufferIndex"
    ELSE IF ~reserve_ok THEN "NoBuffer"
    ELSE IF span_size = 0 THEN "FailedToMapBuffer"
    ELSE IF span_size < SrcBufferSize(reader.image_format_constraints) THEN "BufferTooSmall"
    ELSE "Delivered"

\* The calls made on the client for a frame with that outcome.
CallsOf(outcome, frame) ==
    CASE outcome = "NoReader" -> <<>>
      [] outcome = "InvalidBufferIndex" -> <<ErrorCall(outcome)>>
      [] outcome = "NoBuffer" -> <<ReserveCall(frame)>>
      [] outcome \in {"FailedToMapBuffer", "BufferTooSmall"} ->
             <<ReserveCall(frame), ErrorCall(outcome)>>
      [] outcome = "Delivered" ->
             <<ReserveCall(frame),
               [call |-> "OnIncomingCapturedBufferExt", frame |-> frame, error |-> "none"]>>

\* C25: when the reply to GetNextFrame() arrives, in any state and with any
\* result of the reservation and any mapping, the checks of the frame run in
\* the order reader present, buffer index in range, output buffer reserved,
\* mapping not empty, source size sufficient; the first that fails decides
\* what becomes of the frame and nothing after it runs: a frame whose
\* reservation fails is dropped with no error whatever its mapping, and a
\* frame that fails the mapping or the size check has reserved an output
\* buffer that is not delivered.
C25_ChecksInOrder ==
    (Running /\ frame_requests > 0 /\ in_flight # NoFrame) =>
        \A reserve_ok \in BOOLEAN, span_size \in SpanSizes :
            LET after == OnNextFrame([TakeReply(State, "frame_requests")
                                         EXCEPT !.in_flight = NoFrame],
                                     in_flight, reserve_ok, span_size)
                outcome == FirstFailedCheck(buffer_reader_, in_flight.buffer_index,
                                            reserve_ok, span_size)
            IN  /\ Len(after.frames) = Len(frames) + 1
                /\ after.frames[Len(after.frames)].outcome = outcome
                /\ after.calls = calls \o CallsOf(outcome, in_flight.id)
                /\ after.stream_ = (outcome \in {"NoReader", "NoBuffer", "Delivered"})

\* A frame was dropped on a failed reservation and the next one failed its
\* mapping after its output buffer was reserved.
C25_Witness ==
    /\ Len(frames) = 2
    /\ frames[1].outcome = "NoBuffer"
    /\ frames[2].outcome = "FailedToMapBuffer"
    /\ calls = <<[call |-> "OnStarted", frame |-> 0, error |-> "none"],
                 ReserveCall(1), ReserveCall(2), ErrorCall("FailedToMapBuffer")>>

\* C26: in every state between two events, a device with no open stream has
\* no pool creator, no pool, no reader, no pending completion of either and no
\* resolution hint; a pool or a reader exists only while a stream is open.
C26_NothingWithoutStream ==
    ~stream_ =>
        /\ buffer_collection_creator_ = 0
        /\ buffer_collection_ = 0
        /\ buffer_reader_ = NoReader
        /\ frame_size_ = NoSize
        /\ create_pending = 0
        /\ reader_pending = 0

\* A stream that had a hint, a pool and a reader and had delivered a frame was
\* closed by a fatal error, with the client still attached.
C26_Witness ==
    /\ ~stream_
    /\ client_ # 0
    /\ sent_hints > 0
    /\ CallIndices("OnIncomingCapturedBufferExt") # {}
    /\ CallIndices("OnError") # {}
    /\ buffer_reader_ = NoReader
    /\ frame_size_ = NoSize

\* C27: in every state between two events, an open stream has exactly one
\* resolution watch and exactly one token watch outstanding and at most one
\* get-next-frame request, none before OnStarted was signaled; with no stream
\* open none of the three is outstanding.  A later negotiation round starts no
\* second pull.
C27_OneRequestOfEachKind ==
    /\ resolution_watches = (IF stream_ THEN 1 ELSE 0)
    /\ collection_watches = (IF stream_ THEN 1 ELSE 0)
    /\ frame_requests \in {0, 1}
    /\ frame_requests = 1 =>
          (stream_ /\ started_ /\ CallIndices("OnStarted") # {})

\* The reader of the second round is in place, after a resolution update and
\* a delivered frame, and one request of each kind is outstanding.
C27_Witness ==
    /\ stream_
    /\ sent_tokens = 2
    /\ buffer_reader_ # NoReader
    /\ buffer_reader_.round = 2
    /\ sent_hints > 0
    /\ CallIndices("OnIncomingCapturedBufferExt") # {}
    /\ resolution_watches = 1
    /\ collection_watches = 1
    /\ frame_requests = 1

\* C28: in every start/stop cycle, every ReserveOutputBuffer call and every
\* frame delivery made to the client of the cycle comes after the OnStarted
\* signaled to that client.
C28_StartedBeforeFrames ==
    \A i \in DOMAIN calls :
        calls[i].call \in {"ReserveOutputBuffer", "OnIncomingCapturedBufferExt"} =>
            \E j \in 1..(i - 1) : calls[j].call = "OnStarted"

\* The client was signaled OnStarted, then an output buffer was reserved for
\* it and the frame delivered.
C28_Witness ==
    /\ Len(calls) >= 3
    /\ calls[1].call = "OnStarted"
    /\ calls[2].call = "ReserveOutputBuffer"
    /\ calls[3].call = "OnIncomingCapturedBufferExt"

\* The last resolution update the current stream has sent, and the coded size
\* of the negotiated buffers when it has sent none.
LastHintOrCodedSize ==
    IF sent_hints > 0
    THEN HintSize(cycle, sent_hints)
    ELSE <<RoundUp(Max(buffer_reader_.image_format_constraints.min_coded_width,
                       buffer_reader_.image_format_constraints.required_max_coded_width),
                   buffer_reader_.image_format_constraints.coded_width_divisor),
           RoundUp(Max(buffer_reader_.image_format_constraints.min_coded_height,
                       buffer_reader_.image_format_constraints.required_max_coded_height),
                   buffer_reader_.image_format_constraints.coded_height_divisor)>>

\* C29: whenever a frame can be processed, on the first stream and on every
\* later one, the visible size ProcessNewFrame() uses is the last resolution
\* update received on the current stream, and the coded size of the negotiated
\* buffers if the current stream has sent none; an update of an earlier stream
\* is not used.
C29_VisibleSizeOfCurrentStream ==
    (stream_ /\ buffer_reader_ # NoReader) => VisibleSize(State) = LastHintOrCodedSize

\* The first stream had sent resolution updates and was closed by a failed
\* mapping; the second stream has a reader, no update yet and then two.
C29_Witness ==
    /\ cycle = 2
    /\ stream_
    /\ buffer_reader_ # NoReader
    /\ sent_hints = 2
    /\ frame_size_ = HintSize(2, 2)

\* C30: the presentation timestamp of a frame is its hardware timestamp less
\* the time AllocateAndStart() recorded when that difference is not negative,
\* and 0 otherwise; it is never negative, also for a frame whose hardware
\* timestamp is earlier than the start time.
C30_TimestampSinceStart ==
    [][FrameStep =>
          /\ frames'[Len(frames')].timestamp =
                 (IF in_flight.timestamp - start_time_ >= 0
                  THEN in_flight.timestamp - start_time_
                  ELSE 0)
          /\ frames'[Len(frames')].timestamp >= 0
          /\ start_time_' = start_time_
      ]_vars

\* Capture started at time 1; a frame stamped no later than that was delivered
\* with the timestamp 0 and a frame stamped 2 with the timestamp 1.
C30_Witness ==
    /\ start_time_ = 1
    /\ Len(frames) = 2
    /\ frames[1].outcome = "Delivered"
    /\ frames[1].timestamp = 0
    /\ frames[2].outcome = "Delivered"
    /\ frames[2].timestamp = 1

\* ---- C31 (GeometrySpec)
\* The output size of a frame, handed to the client and to the converter, is
\* the visible size rounded up to even: each component is even, is the
\* visible one or one more; the visible rectangle delivered with the frame
\* is the visible size itself at the origin.
C31_OutputSizeRoundedUpToEven ==
    conversion.phase \in {"measured", "mapped", "converted"} =>
        /\ \A i \in 1..2 :
              /\ conversion.output_size[i] % 2 = 0
              /\ conversion.output_size[i] >= conversion.visible_size[i]
              /\ conversion.output_size[i] <= conversion.visible_size[i] + 1
        /\ conversion.phase = "converted" =>
              conversion.visible_rect =
                  [x |-> 0, y |-> 0, width |-> conversion.visible_size[1],
                   height |-> conversion.visible_size[2]]

\* A frame of 3 x 2 visible samples was converted at 4 x 2.
C31_Witness ==
    /\ conversion.phase = "converted"
    /\ conversion.visible_size = <<3, 2>>
    /\ conversion.output_size = <<4, 2>>
    /\ conversion.visible_rect.width = 3

\* ---- C32 (GeometrySpec)
\* A frame that reaches conversion is read inside its source buffer only: the
\* output width is at most the row stride of the source, the output height at
\* most its coded height, and no read or write falls outside a mapping.
C32_ReadsInsideSource ==
    conversion.phase = "converted" /\ ~conversion.result.check_failed =>
        /\ conversion.output_size[1] <= conversion.src_stride
        /\ conversion.output_size[2] <= conversion.src_coded_height
        /\ conversion.result.undefined = "no"

\* ---- C35 (GeometrySpec)
\* The converter checks the output mapping before it writes: a mapping that
\* does not hold width * height luma bytes and two chroma planes of
\* width * height / 4 bytes each ends the conversion with nothing written,
\* and with a mapping that holds them every write is inside the mapping.
C35_DestinationChecked ==
    conversion.phase = "converted" =>
        LET width == conversion.output_size[1]
            height == conversion.output_size[2]
            frame_bytes == width * height + 2 * ((width * height) \div 4)
        IN  IF Len(conversion.output) < frame_bytes
            THEN /\ conversion.result.check_failed
                 /\ conversion.result.data = conversion.output
                 /\ \A i \in DOMAIN conversion.output :
                       conversion.output[i] = Samples.unwritten
            ELSE WriteEnd(conversion.output_size) <= Len(conversion.output)

\* An output mapping one byte short of a 2 x 2 frame whose source could be
\* read: the conversion ended at the check.
C35_Witness ==
    /\ conversion.phase = "converted"
    /\ conversion.output_size = <<2, 2>>
    /\ Len(conversion.output) = 5
    /\ Len(conversion.src_span) >= 6
    /\ conversion.result.check_failed

\* ---- C38 (GeometrySpec)
\* With a source mapping of coded height * stride * 3 / 2 bytes or more, the
\* source end the converter computes is inside the mapping, and it is at or
\* beyond the end of every plane the converter reads: the luma plane and both
\* chroma planes, for YV12 after the swap of the two.
C38_SourceEndCoversPlanes ==
    (/\ conversion.phase \in {"mapped", "converted"}
     /\ Len(conversion.src_span)
            >= (conversion.src_coded_height * conversion.src_stride * 3) \div 2) =>
        LET src_end == SrcEnd(conversion.format, conversion.src_stride,
                              conversion.src_coded_height)
        IN  /\ src_end <= Len(conversion.src_span)
            /\ \A p \in SrcPlanes(conversion.format, conversion.src_stride,
                                  conversion.src_coded_height) :
                  p.offset + p.size <= src_end

\* ---- C33
\* An installed reader has passed validation: its settings carry image-format
\* constraints and its pixel format is one of I420, YV12 and NV12, so that
\* per-frame processing never reads constraints that are absent and the
\* converter is never called with a format it does not convert.
C33_InstalledReaderValid ==
    buffer_reader_ # NoReader =>
        /\ buffer_reader_.has_image_format_constraints
        /\ buffer_reader_.pixel_format \in {"I420", "YV12", "NV12"}

\* A reader of an unsupported format arrived, the client was told, and no
\* reader is installed.
C33_Witness ==
    /\ \E i \in DOMAIN calls :
          calls[i].call = "OnError" /\ calls[i].error = "UnsupportedPixelFormat"
    /\ buffer_reader_ = NoReader

\* ---- C34
\* A client is attached whenever a completion of the allocation service or a
\* frame callback can run: no call is ever made on a released client, under
\* every interleaving of start, stop, faults and replies.
C34_ClientAttached ==
    /\ "null_client" \notin faults
    /\ (create_pending > 0 \/ reader_pending > 0 \/ frame_requests > 0) => client_ # 0

\* The device was stopped while the reader was being created: the completion
\* is gone with the pool, and the client is released.
C34_Witness ==
    /\ client_ = 0
    /\ cycle > 0
    /\ sent_tokens > 0
    /\ reader_pending = 0
    /\ frame_requests = 0
    /\ calls = <<>>
    /\ faults = {}
    /\ allocated_pools # {}

\* ---- C36 (ManagerSpec)
\* Every task bound to the unretained storage pointer is posted before the
\* task that deletes the storage: in the queue of the storage sequence no
\* task follows the deletion, every task carries a pointer to the storage,
\* and no task has run on a null or deleted storage.
C36_StorageTasksBeforeDeletion ==
    manager.phase = "constructed" =>
        /\ manager.faults = {}
        /\ \A i \in DOMAIN manager.storage_tasks :
              /\ manager.storage_tasks[i].storage
              /\ manager.storage_tasks[i].method = "delete" =>
                     i = Len(manager.storage_tasks)
              /\ manager.storage_tasks[i].method # "delete" => ~manager.storage_deleted

\* ---- C37 (NotifierSpec)
\* What a DidChangeManifest() call does, by the state it is made in: with a
\* report task pending it is coalesced into that task; with none pending and
\* the frame not loading it posts the one report task; with none pending and
\* the frame loading it reports at once.
ChangeStep(guarded) ==
    (notifier'.changes = notifier.changes + 1 /\ (guarded => notifier.can_fetch)) =>
        IF notifier.tasks > 0
        THEN notifier'.tasks = notifier.tasks /\ notifier'.reports = notifier.reports
        ELSE IF ~notifier.loading
        THEN notifier'.tasks = 1 /\ notifier'.reports = notifier.reports
        ELSE notifier'.tasks = 0 /\ notifier'.reports = notifier.reports + 1

\* The report task, when it runs, reports once and leaves no task pending.
ReportStep ==
    notifier'.tasks < notifier.tasks =>
        notifier'.tasks = 0 /\ notifier'.reports = notifier.reports + 1

\* C37, as stated: manifest changes are coalesced per task.  While the frame is
\* not loading, the DidChangeManifest() calls made before the posted report
\* task runs produce exactly one ReportManifestChange(), at most one report
\* task is pending at any time, and a change after the task ran posts a new
\* one; while the frame is loading and no task is pending, every call reports
\* synchronously.
C37_Coalesced ==
    /\ [](notifier.tasks <= 1)
    /\ [][ChangeStep(FALSE)]_vars
    /\ [][ReportStep]_vars

\* C37, amended: the same, for the calls made in a window that can fetch
\* manifests; in a window that cannot (a document of a unique origin) a call
\* neither posts nor reports.
C37_CoalescedWhenFetchable ==
    /\ [](notifier.tasks <= 1 /\ (notifier.tasks = 1 <=> notifier.report_task_scheduled_))
    /\ [][ChangeStep(TRUE)]_vars
    /\ [][ReportStep]_vars
    /\ [](~notifier.can_fetch => notifier.reports = 0 /\ notifier.tasks = 0)

\* Three changes were made with the frame not loading before the report task
\* ran, it has run, and there was one report.
C37_Witness ==
    /\ notifier.can_fetch
    /\ notifier.changes = 3
    /\ notifier.reports = 1
    /\ notifier.tasks = 0
    /\ notifier.notifications = 1

====
